---- MODULE Spec2Model ----
(***************************************************************************)
(* ZapTorrent download core: the peer session (ZapCore/peer_connection.py), *)
(* the scheduler of main.py, the assembler (ZapCore/file_assembler.py), the *)
(* metainfo stage (ZapCore/torrent_parser.py) and the tracker client        *)
(* (ZapCore/tracker_request.py).                                            *)
(*                                                                         *)
(* Python values are tagged records: None, an int, a bytes object, the      *)
(* metadata dict.  Byte strings are sequences of small naturals.  Python    *)
(* lists and bytes are 0-based, sequences here are 1-based: x[i] in the     *)
(* source is x[i + 1] here.                                                 *)
(***************************************************************************)
EXTENDS Integers, Sequences, FiniteSets, TLC

\* ------------------------------------------------------------------ bounds
MaxPieces == 2
MaxPeers == 3
NumDownloadWorkers == 2
NumFailedWorkers == 2
MaxFiles == 3
MaxFileLength == 5
MaxPieceLength == 4
MaxTotalLength == 7
MaxAsmPieces == 2
MaxDelivered == 3

\* ------------------------------------------------------- program constants
DEFAULT_BLOCK_SIZE == 16384
MaxRetriesCap == 10

\* ------------------------------------------------------------ Python values
None == [t |-> "none", v |-> <<>>]
PyInt(n) == [t |-> "int", v |-> n]
PyBytes(b) == [t |-> "bytes", v |-> b]
PyDict(d) == [t |-> "dict", v |-> d]

\* `if x:` on None, bytes.
Truthy(x) == x.t = "bytes" /\ Len(x.v) > 0

Min(a, b) == IF a <= b THEN a ELSE b
Max(a, b) == IF a >= b THEN a ELSE b

SetMin(S) == CHOOSE x \in S : \A y \in S : x <= y

\* hashlib.sha1(b).digest(): a digest computed from every byte and its place;
\* distinct inputs may collide, as with any hash.
RECURSIVE Sha1(_)
Sha1(b) == IF b = <<>> THEN 1 ELSE (Sha1(SubSeq(b, 1, Len(b) - 1)) * 3 + b[Len(b)] + 1) % 7

\* ------------------------------------------------------------ peer session
\* A frame of the peer wire protocol as the reader sees it: the 4-byte length
\* prefix, the message id, and the payload fields the handlers decode.
Frame(len, id, idx, begin, data) == [len |-> len, id |-> id, idx |-> idx, begin |-> begin, data |-> data]
KeepAlive == Frame(0, 0, 0, 0, <<>>)
Choke == Frame(1, 0, 0, 0, <<>>)
Unchoke == Frame(1, 1, 0, 0, <<>>)
Have(i) == Frame(5, 4, i, 0, <<>>)
Bitfield(bytes) == Frame(1 + Len(bytes), 5, 0, 0, bytes)
PieceMsg(i, begin, block) == Frame(9 + Len(block), 7, i, begin, block)

\* A frame whose length prefix says 1 MiB plus 10 bytes, of a message id the
\* client does not know; the payload that follows the id is not written out.
Oversized == Frame(1048576 + 10, 20, 0, 0, <<>>)

\* [(byte >> (7 - i)) & 1 for byte in bitfield_bytes for i in range(8)]
UnpackBitfield(bytes) == [k \in 1..(8 * Len(bytes)) |-> (bytes[((k - 1) \div 8) + 1] \div (2 ^ (7 - ((k - 1) % 8)))) % 2]

\* bitfield.extend([0] * (piece_idx + 1 - len(bitfield))); bitfield[piece_idx] = 1
SetHave(bitfield, piece_idx) == [k \in 1..Max(Len(bitfield), piece_idx + 1) |-> IF k = piece_idx + 1 THEN 1 ELSE IF k <= Len(bitfield) THEN bitfield[k] ELSE 0]

\* perform_handshake that takes any 68-byte reply.
perform_handshake_accepts_any(reply, info_hash) == reply.t = "int"

\* response[28:48] == info_hash; a short or late reply raises inside the try
\* and gives False.  reply is None or the infohash field of a 68-byte reply.
perform_handshake(reply, info_hash) == reply.t = "int" /\ reply.v = info_hash

\* One pass of the while loop of exchange_messages (lines 189-229) on frame f:
\* the availability recorded so far and whether the loop returned on unchoke.
exchange_frame(bitfield, f) ==
  IF f.len = 0 THEN [unchoked |-> FALSE, bitfield |-> bitfield]
  ELSE IF f.id = 5 THEN [unchoked |-> FALSE, bitfield |-> UnpackBitfield(f.data)]
  ELSE IF f.id = 1 THEN [unchoked |-> TRUE, bitfield |-> bitfield]
  ELSE IF f.id = 4 /\ f.len = 5 THEN [unchoked |-> FALSE, bitfield |-> SetHave(bitfield, f.idx)]
  ELSE [unchoked |-> FALSE, bitfield |-> bitfield]

\* exchange_messages on a peer that sends the frames of stream and then
\* nothing: the read after the last frame times out or ends short, and both
\* handlers return (False, []).  pos: the next frame to read.
RECURSIVE exchange_loop(_, _, _)
exchange_loop(stream, p, bitfield) ==
  IF p > Len(stream) THEN [unchoked |-> FALSE, bitfield |-> <<>>, pos |-> p]
  ELSE LET r == exchange_frame(bitfield, stream[p]) IN
       IF r.unchoked THEN [unchoked |-> TRUE, bitfield |-> r.bitfield, pos |-> p + 1]
       ELSE exchange_loop(stream, p + 1, r.bitfield)

exchange_messages(stream) == exchange_loop(stream, 1, <<>>)

\* Line 73: piece_index >= len(bitfield) or not bitfield[piece_index]
peer_lacks_piece_never(bitfield, piece_index) == FALSE

\* Line 73.
peer_lacks_piece(bitfield, piece_index) ==
  piece_index >= Len(bitfield) \/ bitfield[piece_index + 1] = 0

\* actual_length that is piece_length for the last piece too.
actual_length_always_full(piece_index, piece_length, metadata) == piece_length

\* The last-piece rule shared by request_piece and receive_piece.
actual_length(piece_index, piece_length, metadata) ==
  IF piece_index = metadata.piece_count - 1 THEN metadata.total_length - (piece_index * piece_length)
  ELSE piece_length

\* for offset in range(0, actual_length, block_size): the requests sent, in order.
RECURSIVE request_blocks(_, _, _, _)
request_blocks(piece_index, offset, length, block_size) ==
  IF offset >= length THEN <<>>
  ELSE <<[piece_index |-> piece_index, offset |-> offset, length |-> Min(block_size, length - offset)]>>
       \o request_blocks(piece_index, offset + block_size, length, block_size)

request_piece(piece_index, piece_length, metadata, block_size) ==
  request_blocks(piece_index, 0, actual_length(piece_index, piece_length, metadata), block_size)

\* sum(len(block) for block in received_blocks.values())
RECURSIVE BlocksTotal(_)
BlocksTotal(received_blocks) ==
  IF DOMAIN received_blocks = {} THEN 0
  ELSE LET o == SetMin(DOMAIN received_blocks) IN
       Len(received_blocks[o]) + BlocksTotal([x \in (DOMAIN received_blocks) \ {o} |-> received_blocks[x]])

\* b''.join([received_blocks[offset] for offset in sorted(received_blocks)])
RECURSIVE JoinSorted(_)
JoinSorted(received_blocks) ==
  IF DOMAIN received_blocks = {} THEN <<>>
  ELSE LET o == SetMin(DOMAIN received_blocks) IN
       received_blocks[o] \o JoinSorted([x \in (DOMAIN received_blocks) \ {o} |-> received_blocks[x]])

NoBlocks == [x \in {} |-> <<>>]

\* receive_piece that keeps a block only when it continues the bytes so far.
receive_frame_in_order_only(received_blocks, piece_index, f) ==
  IF f.len # 0 /\ f.id = 7 /\ f.idx = piece_index /\ f.begin = BlocksTotal(received_blocks)
  THEN [x \in (DOMAIN received_blocks) \cup {f.begin} |-> IF x = f.begin THEN f.data ELSE received_blocks[x]]
  ELSE received_blocks

\* One pass of the while loop of receive_piece (lines 319-341) on frame f.
receive_frame(received_blocks, piece_index, f) ==
  IF f.len # 0 /\ f.id = 7 /\ f.idx = piece_index
  THEN [x \in (DOMAIN received_blocks) \cup {f.begin} |-> IF x = f.begin THEN f.data ELSE received_blocks[x]]
  ELSE received_blocks

\* receive_piece on the frames of stream from frame p.  A read with no frame
\* left times out or ends short: both handlers return b''.
RECURSIVE receive_loop(_, _, _, _, _)
receive_loop(stream, p, piece_index, length, received_blocks) ==
  IF BlocksTotal(received_blocks) >= length THEN PyBytes(JoinSorted(received_blocks))
  ELSE IF p > Len(stream) THEN PyBytes(<<>>)
  ELSE receive_loop(stream, p + 1, piece_index, length, receive_frame(received_blocks, piece_index, stream[p]))

receive_piece(stream, p, piece_index, piece_length, metadata) ==
  receive_loop(stream, p, piece_index, actual_length(piece_index, piece_length, metadata), NoBlocks)

\* verify_piece that accepts whatever it is given.
verify_piece_accepts_all(piece_data, expected_hash) == TRUE

verify_piece(piece_data, expected_hash) == Sha1(piece_data) = expected_hash

\* The dict built on lines 78 and 79 from the eighth argument, total_length, as
\* the caller passed it.  With a total_length that is no int the sum raises
\* TypeError, with piece_length 0 the division raises ZeroDivisionError; the
\* `except Exception` of line 99 turns either into the return value None.
block_metadata(total_length, piece_length) ==
  IF total_length.t # "int" \/ piece_length = 0 THEN [raised |-> TRUE, total_length |-> 0, piece_count |-> 0]
  ELSE [raised |-> FALSE, total_length |-> total_length.v,
        piece_count |-> (total_length.v + piece_length - 1) \div piece_length]

\* download_piece returning whatever receive_piece gave.
checked_piece_unchecked(piece_data, expected_hash) == piece_data

\* Lines 81-91: the value download_piece returns for the bytes receive_piece gave.
checked_piece(piece_data, expected_hash) ==
  IF ~Truthy(piece_data) THEN None
  ELSE IF ~verify_piece(piece_data.v, expected_hash) THEN None
  ELSE piece_data

\* What one call of download_piece does and returns against a peer that
\* behaves as `peer` says: accept (the outcome of open_connection), hs (its
\* handshake reply) and stream (the frames it sends after the handshake).
\* The finally of lines 105-111 closes the writer whenever one was opened.
SessionResult(ret, sent, opened) == [ret |-> ret, sent |-> sent, opened |-> opened, closed |-> opened]

download_piece(peer, info_hash, piece_index, piece_length, expected_hash, total_length) ==
  IF peer.accept # "ok" THEN SessionResult(None, <<>>, FALSE)
  ELSE IF ~perform_handshake(peer.hs, info_hash) THEN SessionResult(None, <<"handshake">>, TRUE)
  ELSE LET ex == exchange_messages(peer.stream) IN
       IF ~ex.unchoked THEN SessionResult(None, <<"handshake", "interested">>, TRUE)
       ELSE IF peer_lacks_piece(ex.bitfield, piece_index)
            THEN SessionResult(None, <<"handshake", "interested">>, TRUE)
       ELSE LET metadata == block_metadata(total_length, piece_length) IN
            IF metadata.raised THEN SessionResult(None, <<"handshake", "interested">>, TRUE)
            ELSE LET reqs == request_piece(piece_index, piece_length, metadata, DEFAULT_BLOCK_SIZE)
                     piece_data == receive_piece(peer.stream, ex.pos, piece_index, piece_length, metadata)
                 IN SessionResult(checked_piece(piece_data, expected_hash),
                                  <<"handshake", "interested">> \o [k \in 1..Len(reqs) |-> "request"], TRUE)

\* ---------------------------------------------------------------- metainfo
DIGEST_LEN == 20
TrackerMaxRetries == 3

\* The byte of the torrent's content at stream position g (0-based).
ContentByte(g) == (g % 255) + 1
Content(from, to) == [k \in 1..(to - from) |-> ContentByte(from + k - 1)]

\* sum(file[b'length'] for file in files)
RECURSIVE SumSeq(_)
SumSeq(q) == IF q = <<>> THEN 0 ELSE q[1] + SumSeq(Tail(q))

\* A decoded metainfo as a torrent creator writes it for content of the given
\* file lengths: one digest per piece of piece_length bytes, the last shorter.
\* pieces is the blob: its length in bytes and the 20-byte slices it holds.
InfoDict(piece_length, lengths, multi) ==
  LET total == SumSeq(lengths)
      count == (total + piece_length - 1) \div piece_length
  IN [has_piece_length |-> TRUE, piece_length |-> piece_length,
      pieces |-> [len |-> DIGEST_LEN * count,
                  digests |-> [k \in 1..count |-> Sha1(Content((k - 1) * piece_length, Min(k * piece_length, total)))]],
      multi |-> multi, files |-> lengths]

\* hashlib.sha1(bencodepy.bencode(info)).digest()
InfoHash(info) == Sha1(<<info.piece_length, info.pieces.len, Len(info.files)>> \o info.files)

\* convert_to_dict: the metadata dict parse_torrent returns.
convert_to_dict(decoded_data) ==
  LET info == decoded_data.info IN
  [announce |-> decoded_data.announce,
   announce_list |-> decoded_data.announce_list,
   piece_length |-> IF info.has_piece_length THEN info.piece_length ELSE 0,
   piece_count |-> info.pieces.len \div DIGEST_LEN,
   info |-> info,
   info_hash |-> InfoHash(info),
   pieces |-> info.pieces,
   total_length |-> 0]

\* pieces_blob[index * 20 : (index + 1) * 20]; a slice past the end of the
\* blob is short or empty and equals no digest (0 here).
get_piece_hash(torrent_metadata_, index) ==
  IF (index + 1) * DIGEST_LEN <= torrent_metadata_.info.pieces.len
  THEN torrent_metadata_.info.pieces.digests[index + 1] ELSE 0

\* The entries construct_lookup_table appends, file by file.
lookup_entry_from_zero(length, path, global_offset) ==
  [start |-> 0, end |-> length, length |-> length, path |-> path]

\* Line 78: the entry appended for one file.
lookup_entry(length, path, global_offset) ==
  [start |-> global_offset, end |-> global_offset + length, length |-> length, path |-> path]

RECURSIVE lookup_entries(_, _, _)
lookup_entries(lengths, k, global_offset) ==
  IF k > Len(lengths) THEN <<>>
  ELSE <<lookup_entry(lengths[k], k, global_offset)>>
       \o lookup_entries(lengths, k + 1, global_offset + lengths[k])

\* construct_lookup_table: (metadata with "total length" set, table or None).
\* A single-file info has no b'files' key: KeyError, total length = info.length
\* and no table (<<>> here).
construct_lookup_table(metadata) ==
  IF metadata.info.multi
  THEN [metadata |-> [metadata EXCEPT !.total_length = SumSeq(metadata.info.files)],
        table |-> lookup_entries(metadata.info.files, 1, 0)]
  ELSE [metadata |-> [metadata EXCEPT !.total_length = metadata.info.files[1]], table |-> <<>>]

\* ---------------------------------------------------------------- scheduler
VARIABLES torrent_metadata, tracker_response, peer_deque, piece_queue, pq_unfinished,
          failed_piece_queue, fq_unfinished, assembly_queue, aq_unfinished, pbar,
          dw, fw, main_pc, last_session, peer_deque_lock, hist

schedVars == <<torrent_metadata, tracker_response, peer_deque, piece_queue, pq_unfinished,
               failed_piece_queue, fq_unfinished, assembly_queue, aq_unfinished, pbar,
               dw, fw, main_pc, last_session, peer_deque_lock, hist>>

\* The assembler's task and globals, a peer session run on its own, and the
\* start of main up to the tracker's answer.
VARIABLES asm, asm_done, output_files, file_lookup_table, sess, start

asmVars == <<asm, asm_done, output_files, file_lookup_table>>
sessVars == <<sess>>
startVars == <<start>>

vars == <<schedVars, asmVars, sessVars, startVars>>

\* download_worker_array and failed_piece_worker_array (lines 157-158).
DownloadWorkers == DOMAIN dw
FailedWorkers == DOMAIN fw

\* The shared objects main creates (lines 48-60 and the assembler's queue).
Shared == [peer_deque |-> peer_deque, piece_queue |-> piece_queue, pq_unfinished |-> pq_unfinished,
           failed_piece_queue |-> failed_piece_queue, fq_unfinished |-> fq_unfinished,
           assembly_queue |-> assembly_queue, aq_unfinished |-> aq_unfinished, pbar |-> pbar,
           lock |-> peer_deque_lock, hist |-> hist]

SetShared(S) ==
  /\ peer_deque' = S.peer_deque
  /\ piece_queue' = S.piece_queue
  /\ pq_unfinished' = S.pq_unfinished
  /\ failed_piece_queue' = S.failed_piece_queue
  /\ fq_unfinished' = S.fq_unfinished
  /\ assembly_queue' = S.assembly_queue
  /\ aq_unfinished' = S.aq_unfinished
  /\ pbar' = S.pbar
  /\ peer_deque_lock' = S.lock
  /\ hist' = S.hist

\* What the claims need to remember of a run: per piece, the sessions download
\* workers ran for it, the times they put it on failed_piece_queue and the times
\* they marked its piece_queue item done; whether peer_deque was ever changed
\* with the lock free, and whether the lock was ever found taken.
HistInit(n) ==
  [sessions |-> [i \in 0..(n - 1) |-> 0], escalated |-> [i \in 0..(n - 1) |-> 0],
   marked_done |-> [i \in 0..(n - 1) |-> 0], succeeded |-> [i \in 0..(n - 1) |-> 0], unguarded |-> FALSE, contended |-> FALSE]

\* `async with peer_deque_lock:` entry and exit.
lock_acquire(S) == [S EXCEPT !.lock = TRUE, !.hist.contended = @ \/ S.lock]
lock_release(S) == [S EXCEPT !.lock = FALSE]

\* The three mutations of peer_deque.
deque_guard(S) == [S EXCEPT !.hist.unguarded = @ \/ ~S.lock]
deque_popleft(S) == [deque_guard(S) EXCEPT !.peer_deque = Tail(@)]
deque_appendleft(S, peer) == [deque_guard(S) EXCEPT !.peer_deque = <<peer>> \o @]
deque_append(S, peer) == [deque_guard(S) EXCEPT !.peer_deque = Append(@, peer)]

\* lease_peer that pops without taking the lock.
lease_peer_without_lock(S) ==
  IF S.peer_deque # <<>> THEN [S |-> deque_popleft(S), peer |-> Head(S.peer_deque)]
  ELSE [S |-> S, peer |-> 0]

\* Lines 73-76: peer is None (0 here) when the deque is empty.
lease_peer(S) ==
  LET A == lock_acquire(S) IN
  IF A.peer_deque # <<>> THEN [S |-> lock_release(deque_popleft(A)), peer |-> Head(A.peer_deque)]
  ELSE [S |-> lock_release(A), peer |-> 0]

\* Lines 91-92 and 135-136; lines 99-100 and 104-105.
return_peer_front(S, peer) == lock_release(deque_appendleft(lock_acquire(S), peer))
\* The failure branch returning the peer twice.
return_peer_back_twice(S, peer) == lock_release(deque_append(deque_append(lock_acquire(S), peer), peer))

\* The failure branch returning the peer to the front as well.
return_peer_back_at_front(S, peer) == return_peer_front(S, peer)
return_peer_back(S, peer) == lock_release(deque_append(lock_acquire(S), peer))

\* min(math.ceil(len(tracker_response.get("peers")) / 2), 10)
max_retries == Min((Len(tracker_response.peers) + 1) \div 2, MaxRetriesCap)

\* Assembler.assemble: the task put on assembly_queue.
assemble(S, piece_index, piece_data) ==
  [S EXCEPT !.assembly_queue = Append(@, [func |-> IF torrent_metadata.info.multi THEN "assemble_multiple" ELSE "assemble_single",
                                          piece_index |-> piece_index, piece_data |-> piece_data,
                                          piece_length |-> torrent_metadata.piece_length]),
            !.aq_unfinished = @ + 1]

\* What a remote peer may do in a session for piece_index.  CooperativePeer
\* accepts, answers the handshake with our infohash, sends a bitfield with
\* every bit set, unchokes, and delivers each block of the piece in request
\* order with the torrent's data.
PieceActualLength(piece_index) ==
  Min(torrent_metadata.piece_length, torrent_metadata.total_length - piece_index * torrent_metadata.piece_length)

CooperativeBlocks(piece_index) ==
  LET reqs == request_blocks(piece_index, 0, PieceActualLength(piece_index), DEFAULT_BLOCK_SIZE)
      base == piece_index * torrent_metadata.piece_length
  IN [k \in 1..Len(reqs) |-> PieceMsg(piece_index, reqs[k].offset, Content(base + reqs[k].offset, base + reqs[k].offset + reqs[k].length))]

CooperativePeer(piece_index) ==
  [accept |-> "ok", hs |-> PyInt(torrent_metadata.info_hash),
   stream |-> <<Bitfield(<<255>>), Unchoke>> \o CooperativeBlocks(piece_index)]

RefusingPeer == [accept |-> "oserror", hs |-> None, stream |-> <<>>]
ChokingPeer == [accept |-> "ok", hs |-> PyInt(torrent_metadata.info_hash), stream |-> <<Bitfield(<<255>>), Choke>>]

WrongInfohashPeer == [accept |-> "ok", hs |-> PyInt(torrent_metadata.info_hash + 1), stream |-> <<>>]

PeerBehaviours(piece_index) == {CooperativePeer(piece_index), RefusingPeer, ChokingPeer, WrongInfohashPeer}

\* What is remembered of the latest worker session: who ran it, for which
\* piece and peer, what the peer did, what download_piece returned and sent,
\* the deque right after the worker handled the return, and where the worker
\* went next.
NoSession ==
  [pool |-> "none", piece_index |-> -1, peer |-> 0, cooperative |-> FALSE, hs_rejected |-> FALSE,
   ret |-> None, sent |-> <<>>, tried_before |-> 0, tried_after |-> 0, deque_after |-> <<>>,
   next |-> [pc |-> "none", piece_index |-> -1, peer |-> 0]]

SessionRecord(pool, L, peer_id, peer, res, A, R) ==
  [pool |-> pool, piece_index |-> L.piece_index, peer |-> peer_id,
   cooperative |-> peer = CooperativePeer(L.piece_index),
   hs_rejected |-> peer = WrongInfohashPeer,
   ret |-> res.ret, sent |-> res.sent,
   tried_before |-> IF pool = "download" THEN L.tried_peers ELSE 0,
   tried_after |-> IF pool = "download" THEN A.L.tried_peers ELSE 0,
   deque_after |-> A.S.peer_deque,
   next |-> [pc |-> R.L.pc, piece_index |-> R.L.piece_index, peer |-> IF pool = "download" THEN R.L.peer ELSE 0]]

\* The call both worker loops make (lines 83-89 and 126-133): the eighth
\* argument, total_length, is the metadata dict itself.
worker_session(peer, piece_index) ==
  download_piece(peer, torrent_metadata.info_hash, piece_index, torrent_metadata.piece_length,
                 get_piece_hash(torrent_metadata, piece_index), PyDict(torrent_metadata))

\* ----- download_worker.  A worker is suspended at "start" (task created),
\* "sleep" (asyncio.sleep(0.5)), "session" (inside download_piece), or is over
\* ("exit", "cancelled").  DwRun runs it from a place in its code to its next
\* suspension: queue gets and puts on these unbounded queues and the
\* uncontended lock do not suspend.

\* DwFinishPiece that puts a failed piece on failed_piece_queue twice.
DwFinishPieceEscalatesTwice(S, L) ==
  [S EXCEPT !.failed_piece_queue = IF L.success THEN @ ELSE @ \o <<L.piece_index, L.piece_index>>,
            !.fq_unfinished = IF L.success THEN @ ELSE @ + 2,
            !.pq_unfinished = @ - 1,
            !.hist.escalated[L.piece_index] = IF L.success THEN @ ELSE @ + 1,
            !.hist.marked_done[L.piece_index] = @ + 1]

\* Lines 107-111: escalate the piece unless it succeeded, mark the item done.
DwFinishPiece(S, L) ==
  [S EXCEPT !.failed_piece_queue = IF L.success THEN @ ELSE Append(@, L.piece_index),
            !.fq_unfinished = IF L.success THEN @ ELSE @ + 1,
            !.pq_unfinished = @ - 1,
            !.hist.escalated[L.piece_index] = IF L.success THEN @ ELSE @ + 1,
            !.hist.marked_done[L.piece_index] = @ + 1]

RECURSIVE DwRun(_, _)
DwRun(S, L) ==
  CASE L.pc = "loop" ->
         IF S.piece_queue = <<>> THEN [S |-> S, L |-> [L EXCEPT !.pc = "exit"]]
         ELSE DwRun([S EXCEPT !.piece_queue = Tail(@)],
                    [L EXCEPT !.pc = "inner", !.piece_index = Head(S.piece_queue), !.tried_peers = 0, !.success = FALSE])
    [] L.pc = "inner" ->
         IF L.tried_peers < max_retries
         THEN LET leased == lease_peer(S) IN
              IF leased.peer # 0
              THEN [S |-> leased.S, L |-> [L EXCEPT !.pc = "session", !.peer = leased.peer]]
              ELSE [S |-> leased.S, L |-> [L EXCEPT !.pc = "sleep", !.peer = 0]]
         ELSE DwRun(S, [L EXCEPT !.pc = "after"])
    [] L.pc = "after" -> DwRun(DwFinishPiece(S, L), [L EXCEPT !.pc = "loop"])

\* The failure branch without the tried_peers += 1 of line 106.
DwAfterSession_no_count(S, L, recv_piece_data) ==
  [S |-> return_peer_back(S, L.peer), L |-> [L EXCEPT !.pc = "inner"]]

\* Lines 90-106: what the worker does with the session's return value.
DwAfterSession(S, L, recv_piece_data) ==
  IF Truthy(recv_piece_data)
  THEN [S |-> [assemble(return_peer_front(S, L.peer), L.piece_index, recv_piece_data.v)
                 EXCEPT !.pbar = @ + 1, !.hist.succeeded[L.piece_index] = @ + 1],
        L |-> [L EXCEPT !.success = TRUE, !.pc = "after"]]
  ELSE [S |-> return_peer_back(S, L.peer),
        L |-> [L EXCEPT !.tried_peers = @ + 1, !.pc = "inner"]]

DwInit == [pc |-> "start", piece_index |-> -1, tried_peers |-> 0, success |-> FALSE, peer |-> 0, cancel |-> FALSE]

DwStart(w) ==
  /\ main_pc # "start"
  /\ dw[w].pc = "start" /\ ~dw[w].cancel
  /\ LET R == DwRun(Shared, [dw[w] EXCEPT !.pc = "loop"]) IN
       /\ SetShared(R.S)
       /\ dw' = [dw EXCEPT ![w] = R.L]
  /\ UNCHANGED <<torrent_metadata, tracker_response, fw, main_pc, last_session>>
  /\ UNCHANGED <<asmVars, sessVars, startVars>>

DwWake(w) ==
  /\ dw[w].pc = "sleep" /\ ~dw[w].cancel
  /\ LET R == DwRun(Shared, [dw[w] EXCEPT !.pc = "inner"]) IN
       /\ SetShared(R.S)
       /\ dw' = [dw EXCEPT ![w] = R.L]
  /\ UNCHANGED <<torrent_metadata, tracker_response, fw, main_pc, last_session>>
  /\ UNCHANGED <<asmVars, sessVars, startVars>>

DwSessionReturn(w) ==
  /\ dw[w].pc = "session" /\ ~dw[w].cancel
  /\ \E peer \in PeerBehaviours(dw[w].piece_index) :
       LET res == worker_session(peer, dw[w].piece_index)
           A == DwAfterSession([Shared EXCEPT !.hist.sessions[dw[w].piece_index] = @ + 1], dw[w], res.ret)
           R == DwRun(A.S, A.L)
       IN /\ SetShared(R.S)
          /\ dw' = [dw EXCEPT ![w] = R.L]
          /\ last_session' = SessionRecord("download", dw[w], dw[w].peer, peer, res, A, R)
  /\ UNCHANGED <<torrent_metadata, tracker_response, fw, main_pc>>
  /\ UNCHANGED <<asmVars, sessVars, startVars>>

\* worker.cancel() reaches a suspended download worker: CancelledError is no
\* Exception, nothing catches it, the finally of line 112 runs and the task ends.
DwCancelled(w) ==
  /\ dw[w].cancel
  /\ dw' = [dw EXCEPT ![w] = [@ EXCEPT !.pc = "cancelled", !.cancel = FALSE]]
  /\ UNCHANGED <<torrent_metadata, tracker_response, peer_deque, piece_queue, pq_unfinished,
                 failed_piece_queue, fq_unfinished, assembly_queue, aq_unfinished, pbar, peer_deque_lock, hist, fw, main_pc, last_session>>
  /\ UNCHANGED <<asmVars, sessVars, startVars>>

\* ----- failed_piece_worker.  Suspended at "wait" (failed_piece_queue.get on
\* an empty queue, or not yet run), "session" (inside download_piece for peer
\* number k of tracker_response["peers"]), "backoff" (asyncio.sleep(1) in the
\* finally), or over ("exit").  unwinding: a CancelledError is propagating.

\* FwRequeue without the put of line 148.
FwRequeueDropsPiece(S, L) ==
  [S EXCEPT !.fq_unfinished = @ - 1]

\* FwRequeue with task_done for the item and for the piece put back.
FwRequeueMarksBothDone(S, L) ==
  [S EXCEPT !.failed_piece_queue = Append(@, L.piece_index), !.fq_unfinished = @ - 1]

\* Lines 148-149 after the backoff: put the piece back, then task_done.
FwRequeue(S, L) ==
  [S EXCEPT !.failed_piece_queue = Append(@, L.piece_index), !.fq_unfinished = (@ + 1) - 1]

RECURSIVE FwRun(_, _)
FwRun(S, L) ==
  CASE L.pc = "get" ->
         IF L.unwinding THEN [S |-> S, L |-> [L EXCEPT !.pc = "exit"]]
         ELSE IF S.failed_piece_queue = <<>> THEN [S |-> S, L |-> [L EXCEPT !.pc = "wait"]]
         ELSE FwRun([S EXCEPT !.failed_piece_queue = Tail(@)],
                    [L EXCEPT !.pc = "for", !.piece_index = Head(S.failed_piece_queue), !.success = FALSE, !.k = 1])
    [] L.pc = "for" ->
         IF L.k <= Len(tracker_response.peers) THEN [S |-> S, L |-> [L EXCEPT !.pc = "session"]]
         ELSE FwRun(S, [L EXCEPT !.pc = "finally"])
    [] L.pc = "finally" ->
         IF ~L.success THEN [S |-> S, L |-> [L EXCEPT !.pc = "backoff"]]
         ELSE FwRun([S EXCEPT !.fq_unfinished = @ - 1], [L EXCEPT !.pc = "get"])

\* Lines 134-141: what the worker does with the session's return value.
FwAfterSession(S, L, recv_piece_data) ==
  IF Truthy(recv_piece_data)
  THEN [S |-> [assemble(return_peer_front(S, tracker_response.peers[L.k]), L.piece_index, recv_piece_data.v) EXCEPT !.pbar = @ + 1],
        L |-> [L EXCEPT !.success = TRUE, !.pc = "finally"]]
  ELSE [S |-> S, L |-> [L EXCEPT !.k = @ + 1, !.pc = "for"]]

FwInit == [pc |-> "wait", piece_index |-> -1, success |-> FALSE, k |-> 0, cancel |-> FALSE, unwinding |-> FALSE]

FwGet(w) ==
  /\ main_pc # "start"
  /\ fw[w].pc = "wait" /\ ~fw[w].cancel
  /\ failed_piece_queue # <<>>
  /\ LET R == FwRun(Shared, [fw[w] EXCEPT !.pc = "get"]) IN
       /\ SetShared(R.S)
       /\ fw' = [fw EXCEPT ![w] = R.L]
  /\ UNCHANGED <<torrent_metadata, tracker_response, dw, main_pc, last_session>>
  /\ UNCHANGED <<asmVars, sessVars, startVars>>

FwSessionReturn(w) ==
  /\ fw[w].pc = "session" /\ ~fw[w].cancel
  /\ \E peer \in PeerBehaviours(fw[w].piece_index) :
       LET res == worker_session(peer, fw[w].piece_index)
           A == FwAfterSession(Shared, fw[w], res.ret)
           R == FwRun(A.S, A.L)
       IN /\ SetShared(R.S)
          /\ fw' = [fw EXCEPT ![w] = R.L]
          /\ last_session' = SessionRecord("failed", fw[w], tracker_response.peers[fw[w].k], peer, res, A, R)
  /\ UNCHANGED <<torrent_metadata, tracker_response, dw, main_pc>>
  /\ UNCHANGED <<asmVars, sessVars, startVars>>

FwBackoff(w) ==
  /\ fw[w].pc = "backoff" /\ ~fw[w].cancel
  /\ LET R == FwRun(FwRequeue(Shared, fw[w]), [fw[w] EXCEPT !.pc = "get"]) IN
       /\ SetShared(R.S)
       /\ fw' = [fw EXCEPT ![w] = R.L]
  /\ UNCHANGED <<torrent_metadata, tracker_response, dw, main_pc, last_session>>
  /\ UNCHANGED <<asmVars, sessVars, startVars>>

\* worker.cancel() reaches a suspended failure worker.  At the get: the
\* except of line 150 breaks the loop.  Inside download_piece: the inner
\* finally runs, sleeps, requeues, and then the loop breaks.  Inside the
\* finally's sleep: the rest of the finally is skipped and the loop breaks.
FwCancelled(w) ==
  /\ fw[w].cancel
  /\ fw' = [fw EXCEPT ![w] = IF @.pc = "session" THEN [@ EXCEPT !.pc = "backoff", !.cancel = FALSE, !.unwinding = TRUE]
                             ELSE [@ EXCEPT !.pc = "exit", !.cancel = FALSE]]
  /\ UNCHANGED <<torrent_metadata, tracker_response, peer_deque, piece_queue, pq_unfinished,
                 failed_piece_queue, fq_unfinished, assembly_queue, aq_unfinished, pbar, peer_deque_lock, hist, dw, main_pc, last_session>>
  /\ UNCHANGED <<asmVars, sessVars, startVars>>

\* MainAdvance without the wait of line 163 on failed_piece_queue.
MainAdvanceSkipsFailedJoin(join, S) ==
  IF join = "join_piece" /\ S.pq_unfinished > 0 THEN "join_piece"
  ELSE IF S.aq_unfinished > 0 THEN "join_asm"
  ELSE "gather"

\* ----- main, lines 161-173.  Queue.join returns at once when the queue's
\* unfinished count is 0 and otherwise suspends until task_done brings it to 0.
\* MainAdvance(join, S): where main next suspends when it is about to call
\* `join`; "gather" once the three joins have returned and the workers have
\* been cancelled.
MainAdvance(join, S) ==
  IF join = "join_piece" /\ S.pq_unfinished > 0 THEN "join_piece"
  ELSE IF join \in {"join_piece", "join_failed"} /\ S.fq_unfinished > 0 THEN "join_failed"
  ELSE IF S.aq_unfinished > 0 THEN "join_asm"
  ELSE "gather"

\* Whether the join main is suspended in returns, and the join it calls next.
JoinReturns(pc, S) ==
  CASE pc = "join_piece" -> S.pq_unfinished = 0
    [] pc = "join_failed" -> S.fq_unfinished = 0
    [] pc = "join_asm" -> S.aq_unfinished = 0
    [] OTHER -> FALSE

NextJoin(pc) == IF pc = "join_piece" THEN "join_failed" ELSE "join_asm"

\* Lines 166-167: worker.cancel() on every task; a finished task ignores it.
CancelWorkers(pc) ==
  IF pc = "gather"
  THEN /\ dw' = [w \in DownloadWorkers |-> IF dw[w].pc \in {"exit", "cancelled"} THEN dw[w] ELSE [dw[w] EXCEPT !.cancel = TRUE]]
       /\ fw' = [w \in FailedWorkers |-> IF fw[w].pc = "exit" THEN fw[w] ELSE [fw[w] EXCEPT !.cancel = TRUE]]
  ELSE UNCHANGED <<dw, fw>>

MainStart ==
  /\ main_pc = "start"
  /\ main_pc' = MainAdvance("join_piece", Shared)
  /\ CancelWorkers(main_pc')
  /\ UNCHANGED <<torrent_metadata, tracker_response, peer_deque, piece_queue, pq_unfinished,
                 failed_piece_queue, fq_unfinished, assembly_queue, aq_unfinished, pbar, peer_deque_lock, hist, last_session>>
  /\ UNCHANGED <<asmVars, sessVars, startVars>>

MainResume ==
  /\ JoinReturns(main_pc, Shared)
  /\ main_pc' = MainAdvance(NextJoin(main_pc), Shared)
  /\ CancelWorkers(main_pc')
  /\ UNCHANGED <<torrent_metadata, tracker_response, peer_deque, piece_queue, pq_unfinished,
                 failed_piece_queue, fq_unfinished, assembly_queue, aq_unfinished, pbar, peer_deque_lock, hist, last_session>>
  /\ UNCHANGED <<asmVars, sessVars, startVars>>

\* Lines 169-180: gather returns when every worker task is over.
MainGather ==
  /\ main_pc = "gather"
  /\ \A w \in DownloadWorkers : dw[w].pc \in {"exit", "cancelled"}
  /\ \A w \in FailedWorkers : fw[w].pc = "exit"
  /\ main_pc' = "done"
  /\ UNCHANGED <<torrent_metadata, tracker_response, peer_deque, piece_queue, pq_unfinished,
                 failed_piece_queue, fq_unfinished, assembly_queue, aq_unfinished, pbar, peer_deque_lock, hist, dw, fw, last_session>>
  /\ UNCHANGED <<asmVars, sessVars, startVars>>


\* ---------------------------------------------------------------- assembler
\* output_files[path]: whether the file exists and the bytes it holds.  A
\* single-file torrent writes path 1; file k of a multi-file torrent is path k.
\* asm: the assembler task, at "wait" (assembly_queue.get), "writing" (the
\* thread of asyncio.to_thread runs the task), "written" (the thread is over,
\* task_done is next), "raising" (the thread ended with an exception,
\* task_done is next) or "dead" (the exception ended the task); asm.enqueued
\* is the order in which the producers of the assembler on its own put their
\* pieces on assembly_queue.  asm_done: the tasks executed, in order, each with
\* the writes it made and the file whose open failed (0: none).
Paths == 1..Max(1, Len(file_lookup_table))

NoFile == [exists |-> FALSE, data |-> <<>>]

Zeros(n) == [k \in 1..n |-> 0]

\* f.seek(offset); f.write(bytes) on a file opened "r+b".
WriteAt(data, offset, bytes) ==
  [k \in 1..Max(Len(data), offset + Len(bytes)) |->
     IF k > offset /\ k <= offset + Len(bytes) THEN bytes[k - offset]
     ELSE IF k <= Len(data) THEN data[k] ELSE 0]

\* The slice taken from the start of b: b[0:n].
SliceFromStart(b, a, n) == SubSeq(b, 1, Min(n, Len(b)))

\* b[a:a+n]
Slice(b, a, n) == SubSeq(b, a + 1, Min(a + n, Len(b)))

\* assemble_single.  The file is opened "a+b": O_APPEND, so the write goes to
\* the end of the file whatever position the seek of line 55 set.  An
\* exception of open, seek or write is caught and printed.
assemble_single(files, piece_index, piece_data, piece_length, file_path, io_fail) ==
  IF io_fail = -file_path THEN [files |-> files, writes |-> <<>>, raised |-> TRUE]
  ELSE IF io_fail = file_path THEN [files |-> files, writes |-> <<>>, raised |-> FALSE]
  ELSE [files |-> [files EXCEPT ![file_path] = [exists |-> TRUE, data |-> @.data \o piece_data]],
        writes |-> <<[path |-> file_path, offset |-> Len(files[file_path].data), data |-> piece_data]>>,
        raised |-> FALSE]

\* bisect.bisect_left(file_ends_list, piece_start) on the sorted list of ends.
bisect_left(ends, x) == Cardinality({k \in 1..Len(ends) : ends[k] < x})

\* overlap_start without the max: every file is written from the piece's start.
overlap_start_no_max(file, piece_start) == piece_start

\* write_len as the length of the whole piece.
write_len_whole_piece(file, piece_start, piece_end) == piece_end - piece_start

\* Lines 87-92 for one file of the table.
overlap_start(file, piece_start) == Max(file.start, piece_start)
overlap_end(file, piece_end) == Min(file.end, piece_end)
write_len(file, piece_start, piece_end) ==
  Min(overlap_end(file, piece_end) - overlap_start(file, piece_start),
      file.length - (overlap_start(file, piece_start) - file.start))

\* The for loop of assemble_multiple from entry k (1-based) of the table.
RECURSIVE multiple_loop(_, _, _, _, _, _)
multiple_loop(st, k, piece_index, piece_data, piece_length, io_fail) ==
  LET piece_start == piece_index * piece_length
      piece_end == piece_start + Len(piece_data)
  IN IF k > Len(file_lookup_table) THEN st
     ELSE LET file == file_lookup_table[k] IN
       IF file.start >= piece_end THEN st
       ELSE IF file.end <= piece_start THEN multiple_loop(st, k + 1, piece_index, piece_data, piece_length, io_fail)
       ELSE IF write_len(file, piece_start, piece_end) <= 0
            THEN multiple_loop(st, k + 1, piece_index, piece_data, piece_length, io_fail)
       ELSE LET os == overlap_start(file, piece_start)
                wl == write_len(file, piece_start, piece_end)
                made == IF st.files[file.path].exists THEN st.files
                        ELSE [st.files EXCEPT ![file.path] = [exists |-> TRUE, data |-> Zeros(file.length)]]
                bytes == Slice(piece_data, os - piece_start, wl)
                st1 == IF io_fail = -file.path THEN [st EXCEPT !.raised = TRUE]
                       ELSE IF io_fail = file.path THEN [st EXCEPT !.files = made]
                       ELSE [files |-> [made EXCEPT ![file.path].data = WriteAt(@, os - file.start, bytes)],
                             writes |-> Append(st.writes, [path |-> file.path, offset |-> os - file.start, data |-> bytes]),
                             bytes_written |-> st.bytes_written + wl,
                             raised |-> FALSE]
            IN IF st1.raised \/ st1.bytes_written >= piece_length THEN st1
               ELSE multiple_loop(st1, k + 1, piece_index, piece_data, piece_length, io_fail)

assemble_multiple(files, piece_index, piece_data, piece_length, io_fail) ==
  LET idx == bisect_left([k \in 1..Len(file_lookup_table) |-> file_lookup_table[k].end], piece_index * piece_length)
      st == multiple_loop([files |-> files, writes |-> <<>>, bytes_written |-> 0, raised |-> FALSE], idx + 1,
                          piece_index, piece_data, piece_length, io_fail)
  IN [files |-> st.files, writes |-> st.writes, raised |-> st.raised]

\* The function and arguments of a queued task, run in the thread.
RunTask(task, files, io_fail) ==
  IF task.func = "assemble_multiple"
  THEN assemble_multiple(files, task.piece_index, task.piece_data, task.piece_length, io_fail)
  ELSE assemble_single(files, task.piece_index, task.piece_data, task.piece_length, 1, io_fail)

NoTask == [func |-> "none", piece_index |-> -1, piece_data |-> <<>>, piece_length |-> 0]

AsmIdle ==
  /\ asm = [pc |-> "wait", task |-> NoTask, enqueued |-> <<>>]
  /\ asm_done = <<>>
  /\ file_lookup_table = <<>>
  /\ output_files = [p \in {1} |-> NoFile]

asmUnch == UNCHANGED <<tracker_response, peer_deque, piece_queue, pq_unfinished, failed_piece_queue,
                       fq_unfinished, pbar, dw, fw, main_pc, last_session, peer_deque_lock, hist, sessVars, startVars>>

\* A producer awaits Assembler.assemble(piece_index, bytes): each piece once,
\* with the bytes of the piece (actual_length(piece_index) of them).
AsmSubmit(piece_index) ==
  /\ \A k \in 1..Len(assembly_queue) : assembly_queue[k].piece_index # piece_index
  /\ \A k \in 1..Len(asm_done) : asm_done[k].task.piece_index # piece_index
  /\ asm.task.piece_index # piece_index
  /\ LET base == piece_index * torrent_metadata.piece_length
         S == assemble(Shared, piece_index, Content(base, base + PieceActualLength(piece_index)))
     IN /\ assembly_queue' = S.assembly_queue
        /\ aq_unfinished' = S.aq_unfinished
  /\ asm' = [asm EXCEPT !.enqueued = Append(@, piece_index)]
  /\ UNCHANGED <<torrent_metadata, asm_done, output_files, file_lookup_table>>
  /\ asmUnch

\* start_assembler, line 140: func, args = await assembly_queue.get()
AsmGet ==
  /\ asm.pc = "wait"
  /\ assembly_queue # <<>>
  /\ asm' = [asm EXCEPT !.pc = "writing", !.task = Head(assembly_queue)]
  /\ assembly_queue' = Tail(assembly_queue)
  /\ UNCHANGED <<torrent_metadata, aq_unfinished, asm_done, output_files, file_lookup_table>>
  /\ asmUnch

\* Line 142: the thread runs func(*args). io_fail names the file at which an
\* I/O error occurs, one of the files the task opens (0: none): p when the
\* open or write inside the try raises (lines 53-56, 104-109: caught and
\* printed), -p when os.makedirs or the creation of the file raises (lines 51,
\* 97, 100-102: outside every try, so the error leaves func).
AsmWrite ==
  /\ asm.pc = "writing"
  /\ \E io_fail \in {0} \cup Paths \cup {-p : p \in Paths} :
       LET r == RunTask(asm.task, output_files, io_fail) IN
         /\ io_fail > 0 => r.writes # RunTask(asm.task, output_files, 0).writes
         /\ io_fail < 0 => r.raised
         /\ output_files' = r.files
         /\ asm_done' = Append(asm_done, [task |-> asm.task, writes |-> r.writes, io_fail |-> io_fail])
         /\ asm' = [asm EXCEPT !.pc = IF r.raised THEN "raising" ELSE "written"]
  /\ UNCHANGED <<torrent_metadata, assembly_queue, aq_unfinished, file_lookup_table>>
  /\ asmUnch

\* Line 144: assembly_queue.task_done(), then back to the get.
AsmTaskDone ==
  /\ asm.pc \in {"written", "raising"}
  /\ aq_unfinished' = aq_unfinished - 1
  /\ asm' = [asm EXCEPT !.pc = IF asm.pc = "raising" THEN "dead" ELSE "wait", !.task = NoTask]
  /\ UNCHANGED <<torrent_metadata, assembly_queue, asm_done, output_files, file_lookup_table>>
  /\ asmUnch


\* ----- the assembler on its own: a parsed torrent of any layout within the
\* bounds, set_global_variables done, the assembler task started, and
\* producers that submit each piece once in any order.
SessIdle == [pc |-> "idle"]
StartIdle == [pc |-> "idle"]

SchedIdle ==
  /\ tracker_response = [peers |-> <<>>]
  /\ peer_deque = <<>>
  /\ piece_queue = <<>>
  /\ pq_unfinished = 0
  /\ failed_piece_queue = <<>>
  /\ fq_unfinished = 0
  /\ pbar = 0
  /\ dw = [w \in 1..NumDownloadWorkers |-> DwInit]
  /\ fw = [w \in 1..NumFailedWorkers |-> FwInit]
  /\ main_pc = "idle"
  /\ last_session = NoSession
  /\ peer_deque_lock = FALSE
  /\ hist = HistInit(0)

Layouts ==
  {l \in [piece_length : 1..MaxPieceLength,
          lengths : UNION {[1..n -> 0..MaxFileLength] : n \in 1..MaxFiles},
          multi : BOOLEAN] :
     /\ ~l.multi => Len(l.lengths) = 1
     /\ SumSeq(l.lengths) \in 1..MaxTotalLength
     /\ (SumSeq(l.lengths) + l.piece_length - 1) \div l.piece_length <= MaxAsmPieces}

AsmInit ==
  \E l \in Layouts :
    LET parsed == construct_lookup_table(convert_to_dict(
                    [announce |-> 1, announce_list |-> <<>>, info |-> InfoDict(l.piece_length, l.lengths, l.multi)]))
    IN /\ torrent_metadata = parsed.metadata
       /\ file_lookup_table = parsed.table
       /\ output_files = [p \in 1..Len(l.lengths) |-> NoFile]
       /\ asm = [pc |-> "wait", task |-> NoTask, enqueued |-> <<>>]
       /\ asm_done = <<>>
       /\ assembly_queue = <<>>
       /\ aq_unfinished = 0
       /\ SchedIdle
       /\ sess = SessIdle
       /\ start = StartIdle

AsmNext ==
  \/ \E piece_index \in 0..(torrent_metadata.piece_count - 1) : AsmSubmit(piece_index)
  \/ AsmGet
  \/ AsmWrite
  \/ AsmTaskDone

SpecAsm == AsmInit /\ [][AsmNext]_vars

\* A parsed single-file torrent of n pieces, the last one short.
SchedPieceLength == 2

SchedTorrent(n) ==
  [announce |-> 1, announce_list |-> <<>>,
   info |-> InfoDict(SchedPieceLength, <<IF n = 0 THEN 0 ELSE n * SchedPieceLength - 1>>, FALSE)]

RECURSIVE range(_, _)
range(a, b) == IF a >= b THEN <<>> ELSE <<a>> \o range(a + 1, b)


\* ----- one call of download_piece on its own, frame by frame.  The caller
\* passes the arguments of a two-piece torrent (the last piece short) and, as
\* total_length, either the int its signature names or the metadata dict.  The
\* peer chooses each outcome and each frame as the session reaches it.
\* sess.pc: "connect", "handshake", "exchange" (about to send interested),
\* "negotiating" (the read loop of exchange_messages), "receiving" (the read
\* loop of receive_piece), "finally" (lines 105-111), "done".  payload_read:
\* the whole of an Oversized frame was read (readexactly of lines 227-228 or
\* 325 returned).
SessTorrent == construct_lookup_table(convert_to_dict(SchedTorrent(2))).metadata

SessFrames ==
  {KeepAlive, Choke, Unchoke, Have(0), Have(1), Bitfield(<<128>>), Bitfield(<<64>>), Bitfield(<<192>>),
   PieceMsg(0, 0, <<1>>), PieceMsg(0, 1, <<2>>), PieceMsg(0, 0, <<9>>), PieceMsg(0, 0, <<1, 2>>), PieceMsg(1, 0, <<3>>),
   Oversized}

sessUnch == UNCHANGED <<schedVars, asmVars, startVars>>

\* writer.close() without the `if writer:` test that guards it.
close_writer_never(opened) == FALSE

\* Lines 106-111: the writer exists once the connection was opened.
close_writer(opened) == opened

SessReturn(ret) == [sess EXCEPT !.pc = "finally", !.ret = ret]

\* Handlers that catch the two I/O exception classes only.
download_piece_catches_io_only(exc) == exc \in {"TimeoutError", "ConnectionError"}

\* Lines 93-102: except asyncio.TimeoutError, except ConnectionError, except
\* Exception.  CancelledError derives from BaseException and passes them.
download_piece_catches(exc) == exc # "CancelledError"

SessInit ==
  /\ \E piece_index \in 0..1, total_length \in {PyInt(SessTorrent.total_length), PyDict(SessTorrent)} :
       sess = [pc |-> "connect", info_hash |-> SessTorrent.info_hash, piece_index |-> piece_index,
               piece_length |-> SessTorrent.piece_length,
               expected_hash |-> get_piece_hash(SessTorrent, piece_index),
               total_length |-> total_length,
               opened |-> FALSE, closed |-> FALSE, sent |-> <<>>, bitfield |-> <<>>,
               length |-> 0, received_blocks |-> NoBlocks, delivered |-> <<>>, ret |-> None,
               unchoked |-> FALSE, cancelled |-> FALSE, escaped |-> "", payload_read |-> FALSE]
  /\ torrent_metadata = SessTorrent
  /\ assembly_queue = <<>>
  /\ aq_unfinished = 0
  /\ SchedIdle
  /\ AsmIdle
  /\ start = StartIdle

\* Lines 42-59: open_connection succeeds, times out or raises OSError.
SessConnect ==
  /\ sess.pc = "connect"
  /\ \E accept \in {"ok", "timeout", "oserror"} :
       sess' = IF accept = "ok" THEN [sess EXCEPT !.pc = "handshake", !.opened = TRUE] ELSE SessReturn(None)
  /\ sessUnch

\* Lines 61-64 and perform_handshake: no reply in time, or a 68-byte reply.
SessHandshake ==
  /\ sess.pc = "handshake"
  /\ \E reply \in {None, PyInt(sess.info_hash), PyInt(sess.info_hash + 1)} :
       sess' = IF perform_handshake(reply, sess.info_hash)
               THEN [sess EXCEPT !.pc = "exchange", !.sent = Append(@, "handshake")]
               ELSE [SessReturn(None) EXCEPT !.sent = Append(@, "handshake")]
  /\ sessUnch

\* Lines 178-182: exchange_messages sends interested.
SessInterested ==
  /\ sess.pc = "exchange"
  /\ sess' = [sess EXCEPT !.pc = "negotiating", !.sent = Append(@, "interested"), !.bitfield = <<>>]
  /\ sessUnch

\* Lines 68-78 once exchange_messages has returned (True, bitfield).
SessAfterUnchoke(bitfield) ==
  IF peer_lacks_piece(bitfield, sess.piece_index) THEN SessReturn(None)
  ELSE LET metadata == block_metadata(sess.total_length, sess.piece_length) IN
       IF metadata.raised
       THEN [SessReturn(None) EXCEPT !.escaped = IF download_piece_catches("TypeError") THEN "" ELSE "TypeError"]
       ELSE LET reqs == request_piece(sess.piece_index, sess.piece_length, metadata, DEFAULT_BLOCK_SIZE) IN
            [sess EXCEPT !.pc = "receiving", !.bitfield = bitfield,
                         !.sent = @ \o [k \in 1..Len(reqs) |-> "request"],
                         !.length = actual_length(sess.piece_index, sess.piece_length, metadata),
                         !.received_blocks = NoBlocks]

SessExchangeRead ==
  /\ sess.pc = "negotiating"
  /\ \E f \in SessFrames :
       LET r == exchange_frame(sess.bitfield, f) IN
         sess' = IF r.unchoked THEN [SessAfterUnchoke(r.bitfield) EXCEPT !.unchoked = TRUE]
                 ELSE [sess EXCEPT !.bitfield = r.bitfield, !.payload_read = @ \/ f = Oversized]
  /\ sessUnch

\* Lines 231-236: the 15 s budget runs out or the stream ends.
SessExchangeTimeout ==
  /\ sess.pc = "negotiating"
  /\ sess' = [SessReturn(None) EXCEPT !.bitfield = <<>>]
  /\ sessUnch

SessReceiveRead ==
  /\ sess.pc = "receiving"
  /\ BlocksTotal(sess.received_blocks) < sess.length
  /\ Len(sess.delivered) < MaxDelivered
  /\ \E f \in SessFrames :
       sess' = [sess EXCEPT !.received_blocks = receive_frame(@, sess.piece_index, f),
                            !.delivered = Append(@, f),
                            !.payload_read = @ \/ f = Oversized]
  /\ sessUnch

\* Lines 347-353: a read times out or ends short; receive_piece returns b''.
SessReceiveTimeout ==
  /\ sess.pc = "receiving"
  /\ BlocksTotal(sess.received_blocks) < sess.length
  /\ sess' = SessReturn(checked_piece(PyBytes(<<>>), sess.expected_hash))
  /\ sessUnch

\* Lines 343-345 and 81-91: the loop ends, the blocks are joined and verified.
SessReceiveDone ==
  /\ sess.pc = "receiving"
  /\ BlocksTotal(sess.received_blocks) >= sess.length
  /\ sess' = SessReturn(checked_piece(PyBytes(JoinSorted(sess.received_blocks)), sess.expected_hash))
  /\ sessUnch

\* Lines 105-111.
SessClose ==
  /\ sess.pc = "finally"
  /\ sess' = [sess EXCEPT !.pc = "done", !.closed = close_writer(sess.opened)]
  /\ sessUnch

\* The task running download_piece is cancelled while it is suspended in an
\* await of the try block: CancelledError passes the except clauses (it is no
\* Exception) and the finally runs.
SessCancelled ==
  /\ \/ sess.pc \in {"connect", "handshake", "exchange", "negotiating"}
     \/ sess.pc = "receiving" /\ BlocksTotal(sess.received_blocks) < sess.length
  /\ sess' = [SessReturn(None) EXCEPT !.cancelled = TRUE,
                                     !.escaped = IF download_piece_catches("CancelledError") THEN "" ELSE "CancelledError"]
  /\ sessUnch

SessNext ==
  \/ SessConnect
  \/ SessHandshake
  \/ SessInterested
  \/ SessExchangeRead
  \/ SessExchangeTimeout
  \/ SessReceiveRead
  \/ SessReceiveTimeout
  \/ SessReceiveDone
  \/ SessClose
  \/ SessCancelled

SpecSession == SessInit /\ [][SessNext]_vars

\* ----- request_piece on its own, as download_piece calls it (line 78: the
\* default block size, piece count = ceil(total_length / piece_length)), for
\* pieces of up to MaxBlocks blocks and a byte: piece lengths and last-piece
\* lengths around the multiples of the block size, every piece index.
MaxBlocks == 3
MaxReqPieces == 2
ReqLengths == {n \in {k * DEFAULT_BLOCK_SIZE + d : k \in 0..MaxBlocks, d \in {-1, 0, 1}} : n > 0}

ReqInit ==
  /\ \E piece_length \in ReqLengths, last \in ReqLengths, count \in 1..MaxReqPieces :
       /\ last <= piece_length
       /\ \E piece_index \in 0..(count - 1) :
            sess = [pc |-> "request", piece_index |-> piece_index, piece_length |-> piece_length,
                    total_length |-> (count - 1) * piece_length + last, requests |-> <<>>]
  /\ torrent_metadata = None
  /\ assembly_queue = <<>>
  /\ aq_unfinished = 0
  /\ SchedIdle
  /\ AsmIdle
  /\ start = StartIdle

\* Lines 265-280: every request of the piece is written, in loop order.
ReqSend ==
  /\ sess.pc = "request"
  /\ sess' = [sess EXCEPT !.pc = "requested",
                          !.requests = request_piece(sess.piece_index, sess.piece_length,
                                                     block_metadata(PyInt(sess.total_length), sess.piece_length),
                                                     DEFAULT_BLOCK_SIZE)]
  /\ sessUnch

SpecRequest == ReqInit /\ [][ReqSend]_vars

\* ----- start-up: main lines 38-45 and 47-158, with get_peers step by step.
\* A tracker URL is a number (0 the empty string); tracker t answers with t
\* peers.  start.pc: "parse", "attempt" (get_peers about to send a request),
\* "sleep" (time.sleep(retry_delay)), "spawn" (get_peers returned), "running"
\* (the workers are created), "exited" (the interpreter has stopped).
AnnounceLists == {<<>>, <<<<2>>>>, <<<<0, 2>>, <<3>>>>}

\* The files main may be pointed at: one that does not decode, a well-formed
\* descriptor, and descriptors whose pieces blob is one byte long or short,
\* or whose piece length is 0 or absent.
MetainfoFiles ==
  LET good == InfoDict(SchedPieceLength, <<2 * SchedPieceLength - 1>>, FALSE)
      infos == {good,
                [good EXCEPT !.pieces.len = @ + 1],
                [good EXCEPT !.pieces.len = @ - 1],
                [good EXCEPT !.piece_length = 0],
                [good EXCEPT !.has_piece_length = FALSE, !.piece_length = 0]}
  IN {[decodes |-> FALSE, data |-> None]}
     \cup {[decodes |-> TRUE, data |-> [announce |-> 1, announce_list |-> al, info |-> i]] :
             al \in AnnounceLists, i \in infos}

\* parse_torrent: final_metadata is unbound when reading or decoding raised,
\* so `return final_metadata` raises UnboundLocalError.
parse_torrent(file) ==
  IF file.decodes THEN [raised |-> FALSE, metadata |-> convert_to_dict(file.data)]
  ELSE [raised |-> TRUE, metadata |-> None]

RECURSIVE flatten(_)
flatten(url_lists) == IF url_lists = <<>> THEN <<>> ELSE Head(url_lists) \o flatten(Tail(url_lists))

\* Lines 215-224: announce, then every non-empty URL of announce-list.
trackers(metadata) ==
  <<metadata.announce>> \o SelectSeq(flatten(metadata.announce_list), LAMBDA url : url # 0)

TrackerResponse(tracker) == [peers |-> range(1, tracker + 1)]

\* tracker.startswith("udp://"): of the URLs above, 2 is the udp:// one.
UdpUrls == {2}

\* get_response_udp.  The two transaction ids are random.randint draws; a
\* reply is a timeout of recvfrom ("timeout"), a datagram ("data"), of which
\* the length, the action code and the transaction id matter, or "none" when
\* the call ended before asking.  An announce reply of 20 + 6 * n bytes lists
\* n peers.
MaxTxId == 2
ACTION_CONNECT == 0
ACTION_ANNOUNCE == 1
CONNECT_REPLY_LEN == 16
ANNOUNCE_REPLY_LEN == 20
PEER_ENTRY_LEN == 6

Reply(kind, len, action, tid) == [kind |-> kind, len |-> len, action |-> action, tid |-> tid]

\* Lines 103-113: the connect reply is taken.
connect_reply_accepted(reply, transaction_id) ==
  /\ reply.kind = "data"
  /\ ~(reply.len < CONNECT_REPLY_LEN)
  /\ ~(reply.tid # transaction_id \/ reply.action # ACTION_CONNECT)

\* The announce reply taken whatever transaction id it carries.
announce_reply_accepted_any_tid(reply, transaction_id) ==
  /\ reply.kind = "data"
  /\ ~(reply.len < ANNOUNCE_REPLY_LEN)
  /\ reply.action = ACTION_ANNOUNCE

\* Lines 136-146: the announce reply is taken.
announce_reply_accepted(reply, transaction_id) ==
  /\ reply.kind = "data"
  /\ ~(reply.len < ANNOUNCE_REPLY_LEN)
  /\ ~(reply.tid # transaction_id \/ reply.action # ACTION_ANNOUNCE)

\* What the tracker did in one call: x.tid1, x.tid2 the ids drawn (tid2 is 0
\* and announce is "none" when the call ended before the announce).  Lines
\* 148-156: one "ip:port" per whole 6-byte entry after the 20-byte header.
get_response_udp(x) ==
  IF ~connect_reply_accepted(x.connect, x.tid1) THEN [raised |-> TRUE, response |-> None]
  ELSE IF ~announce_reply_accepted(x.announce, x.tid2) THEN [raised |-> TRUE, response |-> None]
  ELSE [raised |-> FALSE,
        response |-> [peers |-> range(1, (x.announce.len - ANNOUNCE_REPLY_LEN) \div PEER_ENTRY_LEN + 1)]]

\* get_response_http: the request raises (connection error, timeout, status
\* not 2xx, body not bencoded) or gives the tracker's peers.
get_response_http(tracker, x) ==
  IF x.http_ok THEN [raised |-> FALSE, response |-> TrackerResponse(tracker)]
  ELSE [raised |-> TRUE, response |-> None]

\* get_peers line 194: port = random.randint(6881, 6889).
PORT_MIN == 6881
PORT_MAX == 6889

\* The draws of line 194 the model follows: the two ends of the range.
ListenPorts == {PORT_MIN, PORT_MAX}

\* The port written in the file's udp:// URL ("udp://host:port/announce"): one
\* outside the range of line 194 and one inside it.
UdpPorts == {1337, PORT_MAX}

\* The port field of the announce packet (line 132).  get_response_udp takes
\* the listening port as its parameter `port`, and rebinds that name to the
\* URL's port at line 87 (port = int(port_str)) to address the socket.
announce_port(url_port, port) == url_port

NoExchange ==
  [udp |-> FALSE, http_ok |-> FALSE, tid1 |-> 0, tid2 |-> 0,
   connect |-> Reply("none", 0, 0, 0), announce |-> Reply("none", 0, 0, 0)]

\* What may happen in the call get_peers makes for a tracker (lines 234-240).
TrackerExchanges(tracker) ==
  LET replies(min_len, most) ==
        {Reply("timeout", 0, 0, 0)}
        \cup {Reply("data", len, action, tid) :
                len \in {min_len - 1, min_len, most},
                action \in {ACTION_CONNECT, ACTION_ANNOUNCE}, tid \in 1..MaxTxId}
  IN IF tracker \in UdpUrls
     THEN {x \in [udp : {TRUE}, http_ok : {FALSE}, tid1 : 1..MaxTxId, tid2 : 0..MaxTxId,
                  connect : replies(CONNECT_REPLY_LEN, CONNECT_REPLY_LEN),
                  announce : replies(ANNOUNCE_REPLY_LEN, ANNOUNCE_REPLY_LEN + 2 * PEER_ENTRY_LEN + 1)
                             \cup {Reply("none", 0, 0, 0)}] :
             IF connect_reply_accepted(x.connect, x.tid1)
             THEN x.tid2 # 0 /\ x.announce.kind # "none"
             ELSE x.tid2 = 0 /\ x.announce.kind = "none"}
     ELSE {[NoExchange EXCEPT !.http_ok = ok] : ok \in BOOLEAN}

\* Line 245.
retry_never(attempt, max_retries_) == FALSE

retry_allowed(attempt, max_retries_) == attempt < max_retries_

\* The status the interpreter ends with when SystemExit(code) reaches the top.
exit_status(code) == IF code = None THEN 0 ELSE IF code.t = "int" THEN code.v ELSE 1

\* The status after an exception no one caught.
UncaughtStatus == 1

startUnch == UNCHANGED <<asmVars, sessVars, failed_piece_queue, fq_unfinished, assembly_queue,
                         aq_unfinished, pbar, dw, fw, main_pc, last_session, peer_deque_lock, hist>>

StartInit ==
  /\ \E file \in MetainfoFiles, url_port \in UdpPorts :
       start = [pc |-> "parse", file |-> file, trackers |-> <<>>, k |-> 0, attempt |-> 0,
                attempts |-> <<>>, exchange |-> NoExchange, exit_code |-> -1, workers_started |-> FALSE,
                udp_port |-> url_port, port |-> 0, announced |-> 0]
  /\ torrent_metadata = None
  /\ assembly_queue = <<>>
  /\ aq_unfinished = 0
  /\ SchedIdle
  /\ AsmIdle
  /\ sess = SessIdle

\* main lines 39-44 and get_peers up to its first request (lines 193-229).
StartParse ==
  /\ start.pc = "parse"
  /\ LET parsed == parse_torrent(start.file) IN
       IF parsed.raised
       THEN /\ start' = [start EXCEPT !.pc = "exited", !.exit_code = UncaughtStatus]
            /\ UNCHANGED torrent_metadata
       ELSE LET metadata == construct_lookup_table(parsed.metadata).metadata
                urls == trackers(metadata)
            IN /\ torrent_metadata' = metadata
               /\ \E port \in ListenPorts :
                    start' = IF urls = <<>> \/ TrackerMaxRetries < 1
                             THEN [start EXCEPT !.pc = "exited", !.exit_code = exit_status(None), !.port = port]
                             ELSE [start EXCEPT !.pc = "attempt", !.trackers = urls, !.k = 1, !.attempt = 1, !.port = port]
  /\ UNCHANGED <<tracker_response, peer_deque, piece_queue, pq_unfinished>>
  /\ startUnch

\* One pass of the inner loop, lines 230-250: the request returns a response
\* or raises.  start.announced is the port the request carried: the port
\* parameter of the HTTP(S) query string (lines 208, 226, 230), the port field
\* of the UDP announce packet, 0 when the UDP call ended before its announce.
StartAttempt ==
  /\ start.pc = "attempt"
  /\ \E x \in TrackerExchanges(start.trackers[start.k]) :
       LET r == IF start.trackers[start.k] \in UdpUrls THEN get_response_udp(x)
                ELSE get_response_http(start.trackers[start.k], x)
           ok == ~r.raised
           log == Append(start.attempts, [tracker |-> start.k, attempt |-> start.attempt, ok |-> ok,
                                           response |-> r.response])
           sent_port == IF ~x.udp THEN start.port
                        ELSE IF x.announce.kind = "none" THEN 0
                        ELSE announce_port(start.udp_port, start.port)
       IN
         IF ok
         THEN /\ start' = [start EXCEPT !.attempts = log, !.announced = sent_port, !.exchange = x, !.pc = "spawn"]
              /\ tracker_response' = r.response
         ELSE /\ start' = IF retry_allowed(start.attempt, TrackerMaxRetries)
                          THEN [start EXCEPT !.attempts = log, !.announced = sent_port, !.exchange = x, !.pc = "sleep"]
                          ELSE IF start.k < Len(start.trackers)
                          THEN [start EXCEPT !.attempts = log, !.announced = sent_port, !.exchange = x, !.k = @ + 1, !.attempt = 1]
                          ELSE [start EXCEPT !.attempts = log, !.announced = sent_port, !.exchange = x, !.pc = "exited", !.exit_code = exit_status(None)]
              /\ UNCHANGED tracker_response
  /\ UNCHANGED <<torrent_metadata, peer_deque, piece_queue, pq_unfinished>>
  /\ startUnch

\* Line 247 returns.
StartRetry ==
  /\ start.pc = "sleep"
  /\ start' = [start EXCEPT !.pc = "attempt", !.attempt = @ + 1]
  /\ UNCHANGED <<torrent_metadata, tracker_response, peer_deque, piece_queue, pq_unfinished>>
  /\ startUnch

\* main lines 47-158.
StartWorkers ==
  /\ start.pc = "spawn"
  /\ peer_deque' = tracker_response.peers
  /\ piece_queue' = range(0, torrent_metadata.piece_count)
  /\ pq_unfinished' = torrent_metadata.piece_count
  /\ start' = [start EXCEPT !.pc = "running", !.workers_started = TRUE]
  /\ UNCHANGED <<torrent_metadata, tracker_response>>
  /\ startUnch

StartNext ==
  \/ StartParse
  \/ StartAttempt
  \/ StartRetry
  \/ StartWorkers

SpecStart == StartInit /\ [][StartNext]_vars

\* ----- the state at line 161: a parsed single-file torrent of n pieces (the
\* last one short) and the peers a tracker returned.
Init ==
  \E n \in 0..MaxPieces, np \in 0..MaxPeers :
    /\ torrent_metadata = construct_lookup_table(convert_to_dict(SchedTorrent(n))).metadata
    /\ tracker_response = [peers |-> range(1, np + 1)]
    /\ peer_deque = range(1, np + 1)
    /\ piece_queue = range(0, n)
    /\ pq_unfinished = n
    /\ failed_piece_queue = <<>>
    /\ fq_unfinished = 0
    /\ assembly_queue = <<>>
    /\ aq_unfinished = 0
    /\ pbar = 0
    /\ dw = [w \in 1..NumDownloadWorkers |-> DwInit]
    /\ fw = [w \in 1..NumFailedWorkers |-> FwInit]
    /\ main_pc = "start"
    /\ last_session = NoSession
    /\ peer_deque_lock = FALSE
    /\ hist = HistInit(n)
    /\ AsmIdle
    /\ sess = SessIdle
    /\ start = StartIdle

Next ==
  \/ MainStart
  \/ MainResume
  \/ MainGather
  \/ \E w \in DownloadWorkers : DwStart(w) \/ DwWake(w) \/ DwSessionReturn(w) \/ DwCancelled(w)
  \/ \E w \in FailedWorkers : FwGet(w) \/ FwSessionReturn(w) \/ FwBackoff(w) \/ FwCancelled(w)

Spec == Init /\ [][Next]_vars

\* The scheduler under the event loop's scheduling: a task that is ready to
\* run is run (asyncio runs ready callbacks in FIFO order), a sleep ends, a
\* join whose queue is drained returns, and every await inside download_piece
\* is bounded by a timeout, so a session returns.  The torrents are those of
\* Init with at most LivePieces pieces and one to LivePeers peers.
LivePieces == 2
LivePeers == 2

LiveInit == Init /\ torrent_metadata.piece_count <= LivePieces /\ Len(tracker_response.peers) \in 1..LivePeers

SpecLive ==
  /\ LiveInit /\ [][Next]_vars
  /\ WF_vars(MainStart) /\ WF_vars(MainResume) /\ WF_vars(MainGather)
  /\ \A w \in 1..NumDownloadWorkers :
       WF_vars(DwStart(w)) /\ WF_vars(DwWake(w)) /\ WF_vars(DwSessionReturn(w)) /\ WF_vars(DwCancelled(w))
  /\ \A w \in 1..NumFailedWorkers :
       WF_vars(FwGet(w)) /\ WF_vars(FwSessionReturn(w)) /\ WF_vars(FwBackoff(w)) /\ WF_vars(FwCancelled(w))

\* ----- the download workers with as many of them as peers, so that every
\* peer can be out on lease at once (the program runs 20 download workers,
\* line 157, against whatever number of peers the tracker returned).  The
\* steps are those of main up to its wait at line 161 and of the download
\* workers; the failed-piece workers, which lease nothing from peer_deque,
\* are not scheduled here.
LeaseWorkers == 3
LeasePeers == 3
LeasePieces == 3

LeaseInit ==
  \E n \in 1..LeasePieces, np \in 1..LeasePeers :
    /\ torrent_metadata = construct_lookup_table(convert_to_dict(SchedTorrent(n))).metadata
    /\ tracker_response = [peers |-> range(1, np + 1)]
    /\ peer_deque = range(1, np + 1)
    /\ piece_queue = range(0, n)
    /\ pq_unfinished = n
    /\ failed_piece_queue = <<>>
    /\ fq_unfinished = 0
    /\ assembly_queue = <<>>
    /\ aq_unfinished = 0
    /\ pbar = 0
    /\ dw = [w \in 1..LeaseWorkers |-> DwInit]
    /\ fw = [w \in 1..NumFailedWorkers |-> FwInit]
    /\ main_pc = "start"
    /\ last_session = NoSession
    /\ peer_deque_lock = FALSE
    /\ hist = HistInit(n)
    /\ AsmIdle
    /\ sess = SessIdle
    /\ start = StartIdle

LeaseNext ==
  \/ MainStart
  \/ \E w \in DownloadWorkers : DwStart(w) \/ DwWake(w) \/ DwSessionReturn(w)

SpecLease == LeaseInit /\ [][LeaseNext]_vars

\* ------------------------------------------------------------------ claims
piece_count == torrent_metadata.piece_count
Pieces == 0..(piece_count - 1)

Executed(i) == \E k \in 1..Len(asm_done) : asm_done[k].task.piece_index = i
Enqueued(i) ==
  \/ Executed(i)
  \/ asm.task.piece_index = i
  \/ \E k \in 1..Len(assembly_queue) : assembly_queue[k].piece_index = i

C3_CooperativeSessionReturnsPiece ==
  last_session.cooperative => Truthy(last_session.ret)

\* ----- assembler claims, under SpecAsm
MultiFile == torrent_metadata.info.multi
NoIoError == \A k \in 1..Len(asm_done) : asm_done[k].io_fail = 0
Drained ==
  /\ \A i \in Pieces : Executed(i)
  /\ assembly_queue = <<>> /\ aq_unfinished = 0 /\ asm.pc = "wait"

PieceStart(i) == i * torrent_metadata.piece_length
PieceEnd(i) == Min((i + 1) * torrent_metadata.piece_length, torrent_metadata.total_length)

\* C4: single-file torrent, pieces submitted once each in any order: after the
\* queue drains the file holds piece i's bytes at
\* [i*piece_length, i*piece_length + actual_length(i)) for every i.
C4_SingleFilePiecesAtOffsets ==
  (~MultiFile /\ Drained /\ NoIoError) =>
     \A i \in Pieces :
        /\ Len(output_files[1].data) >= PieceEnd(i)
        /\ SubSeq(output_files[1].data, PieceStart(i) + 1, PieceEnd(i)) = Content(PieceStart(i), PieceEnd(i))

\* The writes the multi-file rule asks for piece i: one per file whose
\* [start, end) intersects the piece's range, the overlap at the file's offset.
ExpectedWrites(i) ==
  {[path |-> file_lookup_table[f].path,
    offset |-> Max(file_lookup_table[f].start, PieceStart(i)) - file_lookup_table[f].start,
    data |-> Content(Max(file_lookup_table[f].start, PieceStart(i)), Min(file_lookup_table[f].end, PieceEnd(i)))] :
     f \in {g \in 1..Len(file_lookup_table) :
              Max(file_lookup_table[g].start, PieceStart(i)) < Min(file_lookup_table[g].end, PieceEnd(i))}}

\* C5: multi-file torrent: a task for piece i writes to exactly the files whose
\* [start, end) intersects [i*piece_length, i*piece_length + len(bytes)), to
\* each exactly the overlapping bytes at offset overlap_start - file.start, once,
\* and no file exists that no submitted piece intersects.
C5_MultiFileWritesExactOverlaps ==
  MultiFile =>
    /\ \A k \in 1..Len(asm_done) :
         asm_done[k].io_fail = 0 =>
           /\ {asm_done[k].writes[j] : j \in 1..Len(asm_done[k].writes)} = ExpectedWrites(asm_done[k].task.piece_index)
           /\ Len(asm_done[k].writes) = Cardinality(ExpectedWrites(asm_done[k].task.piece_index))
    /\ \A p \in DOMAIN output_files :
         output_files[p].exists =>
           \E k \in 1..Len(asm_done) : \E x \in ExpectedWrites(asm_done[k].task.piece_index) : x.path = p

\* The short last piece was written across three files.
C5_Witness ==
  /\ MultiFile
  /\ \E k \in 1..Len(asm_done) :
       /\ asm_done[k].io_fail = 0
       /\ asm_done[k].task.piece_index = piece_count - 1
       /\ Len(asm_done[k].task.piece_data) < torrent_metadata.piece_length
       /\ Len(asm_done[k].writes) >= 3

RECURSIVE ConcatFiles(_)
ConcatFiles(k) == IF k = 0 THEN <<>> ELSE ConcatFiles(k - 1) \o output_files[file_lookup_table[k].path].data

\* C6: multi-file round trip: once every piece has been written, in any order,
\* the concatenation of the output files in file_map order has length
\* total_length and equals the concatenation of the pieces in index order.
C6_MultiFileRoundTrip ==
  (MultiFile /\ Drained /\ NoIoError) =>
     /\ Len(ConcatFiles(Len(file_lookup_table))) = torrent_metadata.total_length
     /\ ConcatFiles(Len(file_lookup_table)) = Content(0, torrent_metadata.total_length)

\* Two pieces written last piece first, over at least two files with bytes.
C6_Witness ==
  /\ MultiFile /\ Drained /\ NoIoError
  /\ piece_count = 2 /\ asm_done[1].task.piece_index = 1
  /\ Len(asm_done[2].writes) >= 2

DeclaredLength(p) == IF MultiFile THEN file_lookup_table[p].length ELSE torrent_metadata.total_length

\* C7: no output file, single-file or multi-file, is ever longer than its
\* declared length, whatever the order of the tasks and whichever opens fail.
C7_NoFileLongerThanDeclared ==
  \A p \in DOMAIN output_files : Len(output_files[p].data) <= DeclaredLength(p)

\* The short last piece has been written after the others and the file has
\* exactly its declared length.
C7_Witness ==
  /\ Drained /\ NoIoError /\ piece_count = 2
  /\ asm_done[2].task.piece_index = 1
  /\ Len(asm_done[2].task.piece_data) < torrent_metadata.piece_length
  /\ \A p \in DOMAIN output_files : Len(output_files[p].data) = DeclaredLength(p)


\* ----- session claims, under SpecSession
\* C2: download_piece returns bytes only if they are the received blocks joined
\* in ascending offset order and their SHA-1 equals the expected hash of
\* piece_index; when the joined blocks hash to anything else it returns None.
C2_ReturnsOnlyVerifiedBytes ==
  sess.pc \in {"finally", "done"} =>
    /\ sess.ret.t \in {"none", "bytes"}
    /\ sess.ret.t = "bytes" =>
         /\ sess.ret.v = JoinSorted(sess.received_blocks)
         /\ Sha1(sess.ret.v) = get_piece_hash(torrent_metadata, sess.piece_index)
    /\ Sha1(JoinSorted(sess.received_blocks)) # get_piece_hash(torrent_metadata, sess.piece_index) => sess.ret = None

\* Piece 0 came in two blocks and was returned.
C2_Witness ==
  /\ sess.pc = "done" /\ sess.piece_index = 0
  /\ sess.ret = PyBytes(<<1, 2>>)
  /\ DOMAIN sess.received_blocks = {0, 1}


\* ----- start-up claims, under SpecStart
Malformed(info) ==
  \/ info.pieces.len % DIGEST_LEN # 0
  \/ ~info.has_piece_length
  \/ info.piece_length = 0

\* C8: the requests get_peers makes go through the trackers in list order,
\* never more than max_retries to one tracker, moving to the next tracker only
\* after max_retries failures on the current one; the first success ends the
\* requests and its response is what get_peers returns.
C8_TrackersInOrderUntilFirstSuccess ==
  LET log == start.attempts IN
  /\ \A n \in 1..Len(log) :
       /\ log[n].tracker \in 1..Len(start.trackers)
       /\ log[n].attempt \in 1..TrackerMaxRetries
       /\ n = 1 => log[n].tracker = 1 /\ log[n].attempt = 1
       /\ n > 1 =>
            /\ ~log[n - 1].ok
            /\ \/ log[n].tracker = log[n - 1].tracker /\ log[n].attempt = log[n - 1].attempt + 1
               \/ /\ log[n].tracker = log[n - 1].tracker + 1 /\ log[n].attempt = 1
                  /\ log[n - 1].attempt = TrackerMaxRetries
  /\ start.pc \in {"spawn", "running"} <=> (log # <<>> /\ log[Len(log)].ok)
  /\ start.pc \in {"spawn", "running"} => tracker_response = log[Len(log)].response

\* The first tracker failed max_retries times and the second answered on a
\* retry; its peers are what the workers were started with.
C8_Witness ==
  /\ start.pc = "running"
  /\ Len(start.attempts) = TrackerMaxRetries + 2
  /\ start.attempts[Len(start.attempts)].tracker = 2
  /\ start.attempts[Len(start.attempts)].attempt = 2
  /\ start.attempts[Len(start.attempts)].ok
  /\ peer_deque = start.attempts[Len(start.attempts)].response.peers /\ peer_deque # <<>>

\* C9: when every attempt on every tracker has failed the engine stops without
\* starting a worker or contacting a peer, and the exit code is non-zero.
AllTrackersFailed ==
  /\ start.pc = "exited"
  /\ Len(start.attempts) = TrackerMaxRetries * Len(start.trackers)
  /\ start.attempts # <<>>

C9_FatalTrackerErrorExitsNonZero ==
  AllTrackersFailed =>
    /\ ~start.workers_started
    /\ peer_deque = <<>> /\ last_session = NoSession
    /\ start.exit_code # 0

\* C10: with a descriptor whose pieces blob is not a multiple of 20 bytes or
\* whose piece length is zero or missing, no tracker is contacted and no worker
\* is started.
C10_MalformedMetainfoRejected ==
  (start.file.decodes /\ Malformed(start.file.data.info)) =>
    /\ start.attempts = <<>>
    /\ ~start.workers_started

\* ----- lookup table, under SpecAsm
\* C11: the lookup table of a multi-file metainfo lists the files in order,
\* starts at 0, has end = start + length in every entry, each start equal to
\* the previous end, lengths summing to the recorded total length and the
\* last end equal to it.
C11_LookupTableContiguous ==
  MultiFile =>
    LET t == file_lookup_table IN
    /\ Len(t) = Len(torrent_metadata.info.files)
    /\ t[1].start = 0
    /\ \A k \in 1..Len(t) :
         /\ t[k].length = torrent_metadata.info.files[k]
         /\ t[k].end = t[k].start + t[k].length
         /\ k > 1 => t[k].start = t[k - 1].end
    /\ SumSeq([k \in 1..Len(t) |-> t[k].length]) = torrent_metadata.total_length
    /\ t[Len(t)].end = torrent_metadata.total_length

\* A table of three files, the middle one empty.
C11_Witness ==
  /\ MultiFile
  /\ Len(file_lookup_table) = 3
  /\ file_lookup_table[1].length > 0 /\ file_lookup_table[2].length = 0 /\ file_lookup_table[3].length > 0
  /\ file_lookup_table[3].start = file_lookup_table[1].end

\* ----- more session claims, under SpecSession
\* The blocks of piece i, one byte each, as a peer that has the piece sends them.
PieceBytes(i) ==
  Content(i * torrent_metadata.piece_length,
          Min((i + 1) * torrent_metadata.piece_length, torrent_metadata.total_length))
PieceBlocks(i) == {PieceMsg(i, o, <<PieceBytes(i)[o + 1]>>) : o \in 0..(Len(PieceBytes(i)) - 1)}
Delivered == {sess.delivered[k] : k \in 1..Len(sess.delivered)}

\* C12: when the frames read by receive_piece were blocks of the piece, every
\* block at least once, in whatever order and however often repeated, the
\* session returns the piece's bytes (the blocks in ascending offset order),
\* which pass the SHA-1 check.
C12_ReassemblyIgnoresOrderAndDuplicates ==
  (sess.pc \in {"finally", "done"} /\ Delivered = PieceBlocks(sess.piece_index)) =>
    /\ sess.ret = PyBytes(PieceBytes(sess.piece_index))
    /\ Sha1(sess.ret.v) = sess.expected_hash

\* The second block came first, twice, then the first block.
C12_Witness ==
  /\ sess.pc = "done" /\ sess.piece_index = 0
  /\ sess.delivered = <<PieceMsg(0, 1, <<2>>), PieceMsg(0, 1, <<2>>), PieceMsg(0, 0, <<1>>)>>
  /\ sess.ret = PyBytes(<<1, 2>>)

\* ----- download worker claims, under Spec
Rejected == last_session.pool = "download" /\ last_session.hs_rejected

\* C13 as stated: after a reply with another infohash the session returns None
\* having sent only the handshake, the download worker counts one failed
\* attempt and leases a peer again for the same piece.
C13_HandshakeRejectionRetries ==
  Rejected =>
    /\ last_session.ret = None
    /\ last_session.sent = <<"handshake">>
    /\ last_session.tried_after = last_session.tried_before + 1
    /\ last_session.next.pc = "session" /\ last_session.next.piece_index = last_session.piece_index

\* C13 amended: ... and leases a peer again for the same piece when the count
\* is still below max_retries; when it has reached max_retries the piece is
\* put on failed_piece_queue instead and the worker leaves it.
C13_HandshakeRejectionCountsOneAttempt ==
  Rejected =>
    /\ last_session.ret = None
    /\ last_session.sent = <<"handshake">>
    /\ last_session.tried_after = last_session.tried_before + 1
    /\ IF last_session.tried_after < max_retries
       THEN last_session.next.pc = "session" /\ last_session.next.piece_index = last_session.piece_index
       ELSE /\ hist.escalated[last_session.piece_index] = 1
            /\ last_session.next.pc = "exit" \/ last_session.next.piece_index # last_session.piece_index

\* A first attempt was rejected at the handshake and the worker is in its
\* second session for the same piece.
C13_Witness ==
  /\ Rejected
  /\ last_session.tried_before = 0 /\ max_retries = 2
  /\ last_session.next.pc = "session" /\ last_session.next.piece_index = last_session.piece_index
  /\ hist.escalated[last_session.piece_index] = 0

\* ----- session claims about what is sent and closed, under SpecSession
RequestSent == \E k \in 1..Len(sess.sent) : sess.sent[k] = "request"
BitSet == sess.piece_index < Len(sess.bitfield) /\ sess.bitfield[sess.piece_index + 1] = 1

\* C14: a request has been sent only if an unchoke was received and the
\* recorded availability has bit piece_index set; a session unchoked with that
\* bit clear or beyond the recorded bitfield returns None with no request sent.
C14_RequestsOnlyAfterUnchokeAndBit ==
  /\ RequestSent => sess.unchoked /\ BitSet
  /\ (sess.unchoked /\ ~BitSet) => sess.pc \in {"finally", "done"} /\ sess.ret = None /\ ~RequestSent

\* Piece 1 was requested after a bitfield without it, a have for it and the
\* unchoke.
C14_Witness ==
  /\ sess.piece_index = 1 /\ sess.unchoked /\ RequestSent
  /\ sess.bitfield = <<1, 1, 0, 0, 0, 0, 0, 0>>

\* C15: no session ends with its connection opened and not closed, whatever
\* made it end.
C15_SocketClosedOnEveryExit ==
  sess.pc = "done" => (sess.opened => sess.closed)

\* A session cancelled while it was receiving blocks has closed its socket.
C15_Witness ==
  /\ sess.pc = "done" /\ sess.cancelled /\ sess.delivered # <<>>
  /\ sess.opened /\ sess.closed


\* C16: an I/O error while writing one piece fails only that assemble task:
\* once a task has met an I/O error the assembler task is still running, so
\* that it consumes every later task and assembly_queue.join() can return.
\* Violated: an error raised by os.makedirs or by the creation of the file
\* leaves func, passes the try/finally of start_assembler and ends the task.
C16_IoErrorFailsOnlyThatTask ==
  (\E k \in 1..Len(asm_done) : asm_done[k].io_fail # 0) => asm.pc # "dead"


\* ----- the retry budget of a download worker, under Spec

\* C17: for each piece popped from piece_queue the download workers run at
\* most max_retries sessions; the piece is put on failed_piece_queue at most
\* once, and once the worker is through with it, exactly once if every session
\* failed and not at all after a successful one; the piece_queue item is
\* marked done at most once, and exactly once when the worker is through.
C17_RetryBudgetAndEscalation ==
  \A i \in DOMAIN hist.sessions :
    /\ hist.sessions[i] <= max_retries
    /\ hist.escalated[i] <= 1 /\ hist.marked_done[i] <= 1 /\ hist.succeeded[i] <= 1
    /\ hist.escalated[i] = 1 =>
         hist.marked_done[i] = 1 /\ hist.succeeded[i] = 0 /\ hist.sessions[i] = max_retries
    /\ hist.marked_done[i] = 1 => (hist.escalated[i] = 1 <=> hist.succeeded[i] = 0)
    /\ hist.marked_done[i] = 0 =>
         \/ \E k \in 1..Len(piece_queue) : piece_queue[k] = i
         \/ \E w \in DownloadWorkers : dw[w].piece_index = i /\ dw[w].pc \in {"sleep", "session"}

\* Piece 0 had its two sessions with three peers known, both failed, and was
\* put on failed_piece_queue and marked done, once each.
C17_Witness ==
  /\ max_retries = 2 /\ 0 \in DOMAIN hist.sessions
  /\ hist.sessions[0] = 2 /\ hist.escalated[0] = 1 /\ hist.marked_done[0] = 1


\* ----- what a download worker leases after a failure, under SpecLease

\* C18: after a failed session with peer p for a piece, the download worker's
\* next attempt for that piece uses a peer other than p.  Violated: the worker
\* pushes p to the back and pops the front at once, and when every other peer
\* is out on lease the front is p.
C18_NextAttemptUsesAnotherPeer ==
  (/\ last_session.pool = "download"
   /\ ~Truthy(last_session.ret)
   /\ last_session.next.pc = "session"
   /\ last_session.next.piece_index = last_session.piece_index)
  => last_session.next.peer # last_session.peer


\* ----- where the peers are, under Spec
InSession == {w \in DownloadWorkers : dw[w].pc = "session"}
PeersAtLarge == peer_deque \o [k \in 1..Cardinality(InSession) |->
                                dw[CHOOSE w \in InSession : Cardinality({v \in InSession : v < w}) = k - 1].peer]

\* C19: a peer leased by a download worker is back in peer_deque before the
\* worker leases again or finishes the piece: right after the worker handled a
\* session's return the peer is at the front if the session succeeded and at
\* the back if it failed, and at every moment each peer of the tracker's list
\* is exactly once either in the deque or with a worker inside a session.
C19_LeasedPeerReturned ==
  /\ last_session.pool = "download" =>
       /\ last_session.deque_after # <<>>
       /\ IF Truthy(last_session.ret)
          THEN Head(last_session.deque_after) = last_session.peer
          ELSE last_session.deque_after[Len(last_session.deque_after)] = last_session.peer
  /\ Len(PeersAtLarge) = Len(tracker_response.peers)
  /\ \A p \in 1..Len(tracker_response.peers) : \E k \in 1..Len(PeersAtLarge) : PeersAtLarge[k] = p

\* A failed session's peer went to the back behind another peer, and the
\* worker is in its next session for the same piece.
C19_Witness ==
  /\ last_session.pool = "download" /\ ~Truthy(last_session.ret)
  /\ Len(last_session.deque_after) >= 2
  /\ last_session.deque_after[Len(last_session.deque_after)] = last_session.peer
  /\ last_session.next.pc = "session" /\ last_session.next.piece_index = last_session.piece_index

\* C20: every pop and push of peer_deque was made with peer_deque_lock held,
\* no worker found the lock held when it entered it, and the lock is free
\* whenever the workers are suspended (in a session, a sleep or a queue get).
C20_DequeMutatedOnlyUnderLock ==
  /\ ~hist.unguarded
  /\ ~hist.contended
  /\ peer_deque_lock = FALSE

\* Two download workers are inside sessions with leased peers, one of them
\* after a failed session whose peer was pushed back, and the lock is free.
C20_Witness ==
  /\ Cardinality(InSession) = 2
  /\ last_session.pool = "download" /\ last_session.tried_after = 1
  /\ Len(peer_deque) = 1 /\ peer_deque_lock = FALSE


\* ----- where the escalated pieces are, under Spec
InFailedQueue(i) == Cardinality({k \in 1..Len(failed_piece_queue) : failed_piece_queue[k] = i})
FwHolding(i) == {w \in FailedWorkers : fw[w].pc \in {"session", "backoff"} /\ fw[w].piece_index = i}
HandedToAssembler(i) ==
  \E k \in 1..Len(assembly_queue) : assembly_queue[k].piece_index = i

\* C21: an escalated piece that was not handed to the assembler is exactly
\* once either in failed_piece_queue or with a failure worker (in a session or
\* in its backoff), and failed_piece_queue's unfinished count covers every
\* such piece: the worker puts the piece back before it marks its item done.
C21_EscalatedPieceNeverDropped ==
  /\ \A i \in DOMAIN hist.escalated :
       (hist.escalated[i] = 1 /\ ~HandedToAssembler(i)) =>
         InFailedQueue(i) + Cardinality(FwHolding(i)) = 1
  /\ fq_unfinished = Len(failed_piece_queue)
                       + Cardinality({w \in FailedWorkers : fw[w].pc \in {"session", "backoff"}})

\* The only piece failed against every peer in a failure worker's hands, was
\* put back after the backoff, and a failure worker has taken it again.
C21_Witness ==
  /\ piece_count = 1 /\ hist.escalated[0] = 1
  /\ last_session.pool = "failed" /\ last_session.next.pc = "backoff"
  /\ \E w \in FailedWorkers : fw[w].pc = "session" /\ fw[w].k = 1 /\ fw[w].piece_index = 0


\* ----- the UDP tracker exchange, under SpecStart
BadDatagram(reply, min_len, transaction_id, action) ==
  \/ reply.kind = "timeout"
  \/ reply.kind = "data" /\ (reply.len < min_len \/ reply.tid # transaction_id \/ reply.action # action)

BadUdpExchange ==
  /\ start.pc # "idle" /\ start.exchange.udp
  /\ \/ BadDatagram(start.exchange.connect, CONNECT_REPLY_LEN, start.exchange.tid1, ACTION_CONNECT)
     \/ BadDatagram(start.exchange.announce, ANNOUNCE_REPLY_LEN, start.exchange.tid2, ACTION_ANNOUNCE)

LastAttempt == start.attempts[Len(start.attempts)]

\* C22: when the latest tracker call was a UDP exchange whose connect or
\* announce reply was short, carried another transaction id or action code,
\* or timed out, no peer list came of it: the attempt is logged as failed,
\* tracker_response is still unset, and get_peers is retrying the same tracker
\* (attempts left), has moved to the next tracker (none left), or has given up
\* after the last tracker.
C22_BadUdpReplyIsAFailedAttempt ==
  BadUdpExchange =>
    /\ ~LastAttempt.ok
    /\ tracker_response = [peers |-> <<>>]
    /\ start.pc \in {"sleep", "attempt", "exited"}
    /\ start.pc = "sleep" =>
         /\ start.k = LastAttempt.tracker /\ start.attempt = LastAttempt.attempt
         /\ LastAttempt.attempt < TrackerMaxRetries
    /\ start.pc = "attempt" =>
         \/ start.k = LastAttempt.tracker /\ start.attempt = LastAttempt.attempt + 1
         \/ /\ start.k = LastAttempt.tracker + 1 /\ start.attempt = 1
            /\ LastAttempt.attempt = TrackerMaxRetries
    /\ start.pc = "exited" =>
         LastAttempt.tracker = Len(start.trackers) /\ LastAttempt.attempt = TrackerMaxRetries

\* An announce reply listing two peers with the announce action but another
\* transaction id than the one sent: the attempt failed and get_peers sleeps
\* before its second attempt.
C22_Witness ==
  /\ BadUdpExchange
  /\ start.exchange.announce = Reply("data", ANNOUNCE_REPLY_LEN + 2 * PEER_ENTRY_LEN + 1, ACTION_ANNOUNCE, 1)
  /\ start.exchange.tid2 = 2
  /\ start.pc = "sleep" /\ LastAttempt.attempt = 1


\* ----- the requests of one piece, under SpecRequest
ReqPieceCount == (sess.total_length + sess.piece_length - 1) \div sess.piece_length
ReqActualLength ==
  IF sess.piece_index < ReqPieceCount - 1 THEN sess.piece_length
  ELSE sess.total_length - (ReqPieceCount - 1) * sess.piece_length

\* C23: the requests request_piece sent for piece i are all for piece i, the
\* first at offset 0, each at the offset where the one before ended, each of
\* at most 16 KiB and at least one byte, and the last ends at
\* actual_length(i), which is piece_length except for the last piece: they
\* are in ascending offset order and partition [0, actual_length(i)).
C23_RequestsPartitionThePiece ==
  sess.pc = "requested" =>
    LET reqs == sess.requests IN
    /\ reqs # <<>>
    /\ reqs[1].offset = 0
    /\ \A k \in 1..Len(reqs) :
         /\ reqs[k].piece_index = sess.piece_index
         /\ reqs[k].length >= 1 /\ reqs[k].length <= DEFAULT_BLOCK_SIZE
         /\ reqs[k].offset + reqs[k].length <= ReqActualLength
         /\ k > 1 => reqs[k].offset = reqs[k - 1].offset + reqs[k - 1].length
    /\ reqs[Len(reqs)].offset + reqs[Len(reqs)].length = ReqActualLength

\* The last piece of a two-piece torrent, one byte more than two blocks long
\* where the pieces before it are three blocks long: three requests, the
\* last of one byte.
C23_Witness ==
  /\ sess.pc = "requested" /\ sess.piece_index = 1
  /\ sess.piece_length = 3 * DEFAULT_BLOCK_SIZE
  /\ sess.total_length = 5 * DEFAULT_BLOCK_SIZE + 1
  /\ Len(sess.requests) = 3 /\ sess.requests[3].length = 1


\* ----- incomplete pieces, under SpecSession

\* C24: a session that ended while the bytes of the blocks received were
\* fewer than actual_length returned None, and a session that returned
\* something returned bytes, not empty and not fewer than actual_length.
C24_NoPartialOrEmptyPiece ==
  sess.pc \in {"finally", "done"} =>
    /\ BlocksTotal(sess.received_blocks) < sess.length => sess.ret = None
    /\ sess.ret # None =>
         /\ sess.ret.t = "bytes" /\ sess.ret.v # <<>>
         /\ Len(sess.ret.v) >= sess.length

\* Piece 0 is two bytes long; the peer sent its first byte and a keep-alive,
\* then nothing until the read timed out: the session returned None.
C24_Witness ==
  /\ sess.pc = "done" /\ ~sess.cancelled /\ sess.piece_index = 0 /\ sess.length = 2
  /\ sess.delivered = <<PieceMsg(0, 0, <<1>>), KeepAlive>>
  /\ sess.ret = None


\* ----- what leaves download_piece, under SpecSession
Verified ==
  /\ sess.length > 0 /\ BlocksTotal(sess.received_blocks) >= sess.length
  /\ verify_piece(JoinSorted(sess.received_blocks), sess.expected_hash)

\* C25: no exception leaves download_piece except the cancellation of its
\* task, and a session that was not cancelled and did not end with a complete
\* verified piece (connection refused or timed out, handshake failed, no
\* unchoke, piece missing, TypeError, incomplete read, hash mismatch)
\* returned None.
C25_ErrorsSurfaceAsNone ==
  sess.pc \in {"finally", "done"} =>
    /\ sess.escaped # "" => sess.cancelled /\ sess.escaped = "CancelledError"
    /\ (~sess.cancelled /\ ~Verified) => sess.ret = None /\ sess.escaped = ""

\* Called with the metadata dict as total_length, unchoked by a peer that has
\* the piece: the TypeError of line 78 was caught, nothing was requested and
\* the session returned None.
C25_Witness ==
  /\ sess.pc = "done" /\ ~sess.cancelled
  /\ sess.total_length.t = "dict" /\ sess.unchoked /\ BitSet
  /\ sess.ret = None /\ sess.escaped = "" /\ ~RequestSent


\* C26: a frame whose length prefix is larger than 1 MiB plus 9 ends the
\* session with None in the negotiating and in the receiving phase, its
\* payload neither read nor skipped.  Violated: no length is checked; the
\* payload is read, the frame ignored and the session goes on.
C26_MalformedLengthIsTerminal ==
  sess.pc # "idle" =>
    (sess.payload_read => sess.pc \in {"finally", "done"} /\ sess.ret = None)


\* ----- the assembler as single consumer, under SpecAsm
AsmRunning == IF asm.pc = "writing" THEN <<asm.task.piece_index>> ELSE <<>>
AsmExecuted == [k \in 1..Len(asm_done) |-> asm_done[k].task.piece_index]
AsmQueued == [k \in 1..Len(assembly_queue) |-> assembly_queue[k].piece_index]

\* The part of C27 that holds: the tasks executed, the one being executed (at
\* most one) and the tasks queued are, in this order, the tasks enqueued in
\* the order they were enqueued, and the unfinished count is that of the
\* tasks queued or running, and of the one whose thread is over but whose
\* task_done is still to come.
AsmFifoOnce ==
  /\ AsmExecuted \o AsmRunning \o AsmQueued = asm.enqueued
  /\ aq_unfinished = Len(AsmRunning) + Len(AsmQueued) + (IF asm.pc \in {"written", "raising"} THEN 1 ELSE 0)

\* C27: the assembler executes one task at a time, in the order of enqueueing,
\* each enqueued task exactly once, with task_done once per task after its
\* write.  Violated: after the error of C16 the assembler task is over and
\* the tasks still queued are never executed.
C27_SingleConsumerExactlyOnce ==
  /\ AsmFifoOnce
  /\ ~(asm.pc = "dead" /\ AsmQueued # <<>>)


\* ----- where the pieces are, under Spec
InPieceQueue(i) == Cardinality({k \in 1..Len(piece_queue) : piece_queue[k] = i})
DwHolding(i) == {w \in DownloadWorkers : dw[w].pc \in {"sleep", "session"} /\ dw[w].piece_index = i}
AssemblerTasks(i) == Cardinality({k \in 1..Len(assembly_queue) : assembly_queue[k].piece_index = i})

\* C28: every piece index of the torrent is in exactly one place: in
\* piece_queue, with one download worker, in failed_piece_queue, with one
\* failure worker, or handed to the assembler (once); and the progress
\* counter is at most piece_count.
C28_PieceConservation ==
  /\ \A i \in Pieces :
       InPieceQueue(i) + Cardinality(DwHolding(i)) + InFailedQueue(i) + Cardinality(FwHolding(i))
         + AssemblerTasks(i) = 1
  /\ pbar <= piece_count

\* Of two pieces, piece 0 was escalated and is with a failure worker while
\* piece 1 is with a download worker, and nothing is left in the queues.
C28_Witness ==
  /\ piece_count = 2
  /\ FwHolding(0) # {} /\ DwHolding(1) # {}
  /\ piece_queue = <<>> /\ failed_piece_queue = <<>>


\* C29: peer_deque never holds the same peer twice, and the peers in it
\* together with those leased by download workers are never more than the
\* peers the tracker returned.
C29_PeerPoolConservation ==
  /\ \A j, k \in 1..Len(peer_deque) : peer_deque[j] = peer_deque[k] => j = k
  /\ Len(peer_deque) + Cardinality(InSession) <= Len(tracker_response.peers)

\* With three peers, one is leased by a download worker and the other two are
\* in the deque after a failure worker's session has ended.
C29_Witness ==
  /\ Len(tracker_response.peers) = 3
  /\ last_session.pool = "failed"
  /\ Cardinality(InSession) = 1 /\ Len(peer_deque) = 2

\* ----- sessions per peer, under Spec
SessionsWith(p) ==
  Cardinality({w \in DownloadWorkers : dw[w].pc = "session" /\ dw[w].peer = p})
  + Cardinality({w \in FailedWorkers : fw[w].pc = "session" /\ tracker_response.peers[fw[w].k] = p})

\* C30: at most one session is in progress with any peer, the sessions of the
\* download workers and of the failure workers taken together.  Violated: a
\* failure worker goes through the tracker's whole list, leasing nothing.
C30_OneSessionPerPeer ==
  \A p \in 1..Len(tracker_response.peers) : SessionsWith(p) <= 1

\* ----- C31
\* The step in which main leaves the last join and calls worker.cancel() on
\* every task (lines 164-167).
CancelStep == main_pc # "gather" /\ main_pc' = "gather"

\* No worker holds a piece, no peer is leased and no session is in progress:
\* the download workers are over or have yet to look at the empty piece_queue,
\* the failure workers wait on the empty failed_piece_queue.
Quiescent ==
  /\ piece_queue = <<>> /\ failed_piece_queue = <<>>
  /\ \A i \in Pieces : DwHolding(i) = {} /\ FwHolding(i) = {}
  /\ InSession = {} /\ peer_deque_lock = FALSE
  /\ Len(peer_deque) = Len(tracker_response.peers)
  /\ \A w \in DownloadWorkers : dw[w].pc \in {"exit", "start"}
  /\ \A w \in FailedWorkers : fw[w].pc = "wait"

PeersAlwaysCooperate == [](last_session.pool = "none" \/ last_session.cooperative)

\* A download worker that found peer_deque empty and sleeps (line 78) leases
\* a peer or leaves the loop later on.
NoLeaseStarvation == \A w \in 1..NumDownloadWorkers : (dw[w].pc = "sleep") ~> (dw[w].pc # "sleep")

C33_AnnouncedPortIsChosenPort ==
  start.pc \in {"attempt", "sleep", "spawn", "running", "exited"} /\ start.announced # 0
    => start.announced = start.port /\ start.port \in PORT_MIN..PORT_MAX

====
